---- MODULE Spec2Model ----
(***************************************************************************)
(* Quality-of-Service pipeline of solution/main.py.                        *)
(*                                                                         *)
(* A pandas DataFrame is a sequence of rows (records); a NaN cell of a     *)
(* float column is the pair <<0, 0>>, every other float is a normalised    *)
(* fraction <<num, den>> with den > 0.  The week of 10080 minutes is       *)
(* scaled to the minutes 0 .. LastMinute.                                  *)
(***************************************************************************)
EXTENDS Integers, Sequences, FiniteSets, TLC

VARIABLES
    entry,                      \* which caller runs: main() or a direct call of one stage
    pc,                         \* the statement the caller is at
    raised,                     \* the exception that ended the run, or "none"
    log,                        \* the stages called so far, in order
    qos_data,                   \* main.py: qos_data
    qos_curves,                 \* main.py: qos_curves
    inventory_curves,           \* main.py: inventory_curves
    consumption_curves,         \* main.py: consumption_curves
    product_inventory_grid,     \* main.py: product_inventory_grid
    time_point_grid,            \* main.py: time_point_grid
    product_availability_ratio, \* main.py: product_availability_ratio
    consumption_curves_interp,  \* main.py: consumption_curves_interp
    qos,                        \* main.py: qos
    given,                      \* the arguments of the last call, as they were passed
    first_qos,                  \* the result of the first of two runs on the same frames
    written,                    \* the tables write_data has written, in order
    propagated,                 \* the exception that has left the program, or "none"
    files,                      \* the csv files of the output folder
    api,                        \* qos_api.py: not started, serving, or failed to start
    api_qos_data,               \* qos_api.py: qos_data, the rows loaded at start
    response                    \* qos_api.py: the last request and its response

vars == <<entry, pc, raised, log, qos_data, qos_curves, inventory_curves,
          consumption_curves, product_inventory_grid, time_point_grid,
          product_availability_ratio, consumption_curves_interp, qos,
          given, first_qos, written, propagated,
          files, api, api_qos_data, response>>

----------------------------------------------------------------------------
(* Bounds of the model *)

\* the last minute of the week (10079 in the source), scaled down
LastMinute == 2
\* the most rows of qos_data.csv
MaxDemand == 2
\* the most rows of qos_curves.csv
MaxCurves == 3
Locations == {"A", "B"}
Products == {"p1", "p2"}
Weeks == {"w1", "w2"}
Dates == {"d1", "d2"}
CurveIds == 1 .. 3
CurveTypes == {"inventory", "consumption_profile"}

\* sort order of the string columns (pandas compares strings lexicographically)
Rank(s) ==
    CASE s = "A" -> 1 [] s = "B" -> 2
      [] s = "w1" -> 1 [] s = "w2" -> 2
      [] s = "p1" -> 1 [] s = "p2" -> 2
      [] s = "d1" -> 1 [] s = "d2" -> 2

----------------------------------------------------------------------------
(* Floats: fractions and NaN *)

RECURSIVE Gcd(_, _)
Gcd(a, b) == IF b = 0 THEN a ELSE Gcd(b, a % b)

Abs(a) == IF a < 0 THEN 0 - a ELSE a

NaN == <<0, 0>>
IsNaN(v) == v[2] = 0

\* the float n / d, d > 0
Frac(n, d) == LET g == Gcd(Abs(n), d) IN <<n \div g, d \div g>>

FAdd(a, b) ==
    IF IsNaN(a) \/ IsNaN(b) THEN NaN
    ELSE Frac(a[1] * b[2] + b[1] * a[2], a[2] * b[2])

FMul(a, b) ==
    IF IsNaN(a) \/ IsNaN(b) THEN NaN ELSE Frac(a[1] * b[1], a[2] * b[2])

\* comparisons with NaN are False, as in IEEE arithmetic
FLe(a, b) == ~IsNaN(a) /\ ~IsNaN(b) /\ a[1] * b[2] <= b[1] * a[2]
FGe(a, b) == FLe(b, a)

----------------------------------------------------------------------------
(* Sequences as tables *)

Range(s) == {s[i] : i \in 1 .. Len(s)}

RECURSIVE Concat(_)
Concat(ss) == IF ss = <<>> THEN <<>> ELSE Head(ss) \o Concat(Tail(ss))

\* DataFrame.drop_duplicates(): the first of equal rows stays, order kept
RECURSIVE drop_duplicates(_)
drop_duplicates(s) ==
    IF s = <<>> THEN <<>>
    ELSE LET r == drop_duplicates(SubSeq(s, 1, Len(s) - 1))
             x == s[Len(s)]
         IN  IF x \in Range(r) THEN r ELSE Append(r, x)

\* DataFrame.sort_values(by=...): stable sort on an integer key
sort_values(s, Key(_)) ==
    LET Before(i) ==
            {j \in 1 .. Len(s) :
                \/ Key(s[j]) < Key(s[i])
                \/ Key(s[j]) = Key(s[i]) /\ j < i}
    IN  [p \in 1 .. Len(s) |->
            s[CHOOSE i \in 1 .. Len(s) : Cardinality(Before(i)) = p - 1]]

\* merge(..., validate=...): the join keys of one side are unique
KeysUnique(s, Key(_)) ==
    \A i, j \in 1 .. Len(s) : Key(s[i]) = Key(s[j]) => i = j

\* Series.ffill() within groups: a NaN cell takes the value of the nearest
\* earlier row of its group that has one, and stays NaN if there is none
GroupFfill(s, Group(_), Val(_), null) ==
    [i \in 1 .. Len(s) |->
        IF Val(s[i]) # null THEN Val(s[i])
        ELSE LET prev == {j \in 1 .. i - 1 :
                            Group(s[j]) = Group(s[i]) /\ Val(s[j]) # null}
             IN  IF prev = {} THEN null
                 ELSE Val(s[CHOOSE j \in prev : \A k \in prev : k <= j])]

\* an argument that is not a pandas DataFrame (the dict of the unit tests)
NotADataFrame == <<[not_a_dataframe |-> TRUE]>>

\* every argument passes for a DataFrame
IsDataFrame_Always(t) == TRUE

\* isinstance(t, pd.DataFrame)
IsDataFrame(t) == t # NotADataFrame

\* set(required_columns) == set(t.columns.tolist()); a frame without rows
\* keeps the columns its producer gave it
HasColumns(t, required_columns) ==
    \A i \in 1 .. Len(t) : DOMAIN t[i] = required_columns

\* t.drop(columns=column)
DropColumn(t, column) ==
    [i \in 1 .. Len(t) |-> [c \in DOMAIN t[i] \ {column} |-> t[i][c]]]

\* the required columns of the frames the stages take
InventoryCurveColumns ==
    {"LOCATION", "PRODUCT", "INVENTORY_CURVE_ID",
     "CONSUMPTION_PROFILE_CURVE_ID", "WEEK_START", "X", "Y"}
ConsumptionCurveColumns ==
    {"LOCATION", "CONSUMPTION_PROFILE_CURVE_ID", "WEEK_START", "X", "Y"}
TimePointGridColumns ==
    {"LOCATION", "CONSUMPTION_PROFILE_CURVE_ID", "WEEK_START", "X"}
ConsumptionInterpColumns == TimePointGridColumns \cup {"CONSUMPTION_Y"}
AvailabilityColumns == TimePointGridColumns \cup {"PA_RATIO"}

----------------------------------------------------------------------------
(* _qos_transformations.py: transform_qos_data *)

\* qos_data.drop(columns='DATE')
DropDate(r) ==
    [LOCATION |-> r.LOCATION, PRODUCT |-> r.PRODUCT,
     INVENTORY_CURVE_ID |-> r.INVENTORY_CURVE_ID,
     CONSUMPTION_PROFILE_CURVE_ID |-> r.CONSUMPTION_PROFILE_CURVE_ID]

\* qos_data with DATE dropped and every row kept
DeduplicatedDemand_KeepAll(qd) == [i \in 1 .. Len(qd) |-> DropDate(qd[i])]

\* qos_data after the two in-place statements of lines 45-46
DeduplicatedDemand(qd) ==
    drop_duplicates([i \in 1 .. Len(qd) |-> DropDate(qd[i])])

\* qos_curves[qos_curves['CURVE_TYPE'] == t]
CurvesOfType(qc, t) == SelectSeq(qc, LAMBDA c : c.CURVE_TYPE = t)

DemandInvKey(r) == r.INVENTORY_CURVE_ID
DemandConsKey(r) == r.CONSUMPTION_PROFILE_CURVE_ID
CurveKey(c) == c.CURVE_ID

\* the validation with the uniqueness check of the right frame left out
InventoryMergeValid_LeftOnly(qd, inv) == KeysUnique(qd, DemandInvKey)

\* validate='one_to_one' of the inventory merge: pandas raises MergeError
\* when the key is repeated in the left or in the right frame
InventoryMergeValid(qd, inv) ==
    KeysUnique(qd, DemandInvKey) /\ KeysUnique(inv, CurveKey)

\* qos_data[['LOCATION', 'CONSUMPTION_PROFILE_CURVE_ID']].drop_duplicates()
LocationConsumption(qd) ==
    drop_duplicates(
        [i \in 1 .. Len(qd) |->
            [LOCATION |-> qd[i].LOCATION,
             CONSUMPTION_PROFILE_CURVE_ID |-> qd[i].CONSUMPTION_PROFILE_CURVE_ID]])

\* validate='one_to_one' of the consumption merge
ConsumptionMergeValid(lc, cons) ==
    KeysUnique(lc, DemandConsKey) /\ KeysUnique(cons, CurveKey)

\* the inner merge of the de-duplicated qos_data with the inventory curves,
\* CURVE_TYPE and CURVE_ID dropped: the rows of the left frame in order, each
\* with the curves of its key; a left row without a curve leaves no row
InventoryMerge(qd, inv) ==
    Concat([i \in 1 .. Len(qd) |->
        LET m == SelectSeq(inv, LAMBDA c : c.CURVE_ID = qd[i].INVENTORY_CURVE_ID)
        IN  [k \in 1 .. Len(m) |->
                [LOCATION |-> qd[i].LOCATION, PRODUCT |-> qd[i].PRODUCT,
                 INVENTORY_CURVE_ID |-> qd[i].INVENTORY_CURVE_ID,
                 CONSUMPTION_PROFILE_CURVE_ID |-> qd[i].CONSUMPTION_PROFILE_CURVE_ID,
                 WEEK_START |-> m[k].WEEK_START, X |-> m[k].X, Y |-> m[k].Y]]])

\* the inner merge of location_consumption with the consumption curves
ConsumptionMerge(lc, cons) ==
    Concat([i \in 1 .. Len(lc) |->
        LET m == SelectSeq(cons,
                    LAMBDA c : c.CURVE_ID = lc[i].CONSUMPTION_PROFILE_CURVE_ID)
        IN  [k \in 1 .. Len(m) |->
                [LOCATION |-> lc[i].LOCATION,
                 CONSUMPTION_PROFILE_CURVE_ID |-> lc[i].CONSUMPTION_PROFILE_CURVE_ID,
                 WEEK_START |-> m[k].WEEK_START, X |-> m[k].X, Y |-> m[k].Y]]])

\* the call: what it raises, what it returns, and qos_data as it leaves it
transform_qos_data(qd0, qc) ==
    LET qd == DeduplicatedDemand(qd0)
        inv == CurvesOfType(qc, "inventory")
        cons == CurvesOfType(qc, "consumption_profile")
        lc == LocationConsumption(qd)
    IN  IF \E i \in 1 .. Len(qd0) : "DATE" \notin DOMAIN qd0[i]
        THEN [raised |-> "KeyError", qos_data |-> qd0,
              inventory_curves |-> <<>>, consumption_curves |-> <<>>]
        ELSE IF ~InventoryMergeValid(qd, inv)
        THEN [raised |-> "MergeError", qos_data |-> qd,
              inventory_curves |-> <<>>, consumption_curves |-> <<>>]
        ELSE IF ~ConsumptionMergeValid(lc, cons)
        THEN [raised |-> "MergeError", qos_data |-> qd,
              inventory_curves |-> <<>>, consumption_curves |-> <<>>]
        ELSE [raised |-> "none", qos_data |-> qd,
              inventory_curves |-> InventoryMerge(qd, inv),
              consumption_curves |-> ConsumptionMerge(lc, cons)]

----------------------------------------------------------------------------
(* The boundary validation and explode() shared by both densifying stages *)

RECURSIVE SeqMin(_)
SeqMin(x) ==
    IF Len(x) = 1 THEN x[1]
    ELSE LET m == SeqMin(Tail(x)) IN IF x[1] < m THEN x[1] ELSE m

RECURSIVE SeqMax(_)
SeqMax(x) ==
    IF Len(x) = 1 THEN x[1]
    ELSE LET m == SeqMax(Tail(x)) IN IF x[1] > m THEN x[1] ELSE m

\* curves[curves['X'].apply(min) != 0].shape[0] != 0
MissingTimepoint0(curves) ==
    \E i \in 1 .. Len(curves) : SeqMin(curves[i].X) # 0

\* the check with the comparison turned into "beyond the last minute"
MissingTimepointLast_Beyond(curves) ==
    \E i \in 1 .. Len(curves) : SeqMax(curves[i].X) > LastMinute

\* curves[curves['X'].apply(max) != 10079].shape[0] != 0
MissingTimepointLast(curves) ==
    \E i \in 1 .. Len(curves) : SeqMax(curves[i].X) # LastMinute

\* DataFrame.explode(list('XY')): one row per sample, in the order of the lists
Explode(curves) ==
    Concat([i \in 1 .. Len(curves) |->
        [k \in 1 .. Len(curves[i].X) |->
            [curves[i] EXCEPT !.X = curves[i].X[k], !.Y = curves[i].Y[k]]]])

----------------------------------------------------------------------------
(* _qos_metrics.py: create_product_inventory *)

\* the marker of an empty cell of an id column
NullId == 0

CurveIdentity(r) ==
    [LOCATION |-> r.LOCATION, INVENTORY_CURVE_ID |-> r.INVENTORY_CURVE_ID,
     PRODUCT |-> r.PRODUCT, WEEK_START |-> r.WEEK_START]

TimePoint(r) == [LOCATION |-> r.LOCATION, WEEK_START |-> r.WEEK_START, X |-> r.X]

\* time_points.merge(curve_ids, how='left', on LOCATION, WEEK_START)
InventoryTimeGrid(ex) ==
    LET curve_ids == drop_duplicates([i \in 1 .. Len(ex) |-> CurveIdentity(ex[i])])
        time_points == drop_duplicates([i \in 1 .. Len(ex) |-> TimePoint(ex[i])])
    IN  Concat([t \in 1 .. Len(time_points) |->
            LET m == SelectSeq(curve_ids,
                        LAMBDA c : /\ c.LOCATION = time_points[t].LOCATION
                                   /\ c.WEEK_START = time_points[t].WEEK_START)
            IN  [k \in 1 .. Len(m) |->
                    [LOCATION |-> m[k].LOCATION, WEEK_START |-> m[k].WEEK_START,
                     X |-> time_points[t].X,
                     INVENTORY_CURVE_ID |-> m[k].INVENTORY_CURVE_ID,
                     PRODUCT |-> m[k].PRODUCT]]])

\* time_point_grid.merge(inventory_curves, how='left', on LOCATION,
\* INVENTORY_CURVE_ID, WEEK_START, PRODUCT, X): a grid row without a sample
\* gets empty CONSUMPTION_PROFILE_CURVE_ID and Y
InventoryGridMerge(grid, ex) ==
    Concat([g \in 1 .. Len(grid) |->
        LET m == SelectSeq(ex,
                    LAMBDA r : /\ r.LOCATION = grid[g].LOCATION
                               /\ r.INVENTORY_CURVE_ID = grid[g].INVENTORY_CURVE_ID
                               /\ r.WEEK_START = grid[g].WEEK_START
                               /\ r.PRODUCT = grid[g].PRODUCT
                               /\ r.X = grid[g].X)
            Row(cpc, y) ==
                [LOCATION |-> grid[g].LOCATION, WEEK_START |-> grid[g].WEEK_START,
                 X |-> grid[g].X,
                 INVENTORY_CURVE_ID |-> grid[g].INVENTORY_CURVE_ID,
                 PRODUCT |-> grid[g].PRODUCT,
                 CONSUMPTION_PROFILE_CURVE_ID |-> cpc, Y |-> y]
        IN  IF m = <<>> THEN <<Row(NullId, NaN)>>
            ELSE [k \in 1 .. Len(m) |->
                    Row(m[k].CONSUMPTION_PROFILE_CURVE_ID, m[k].Y)]])

CurveMinuteKey_MinuteOnly(r) == r.X

CurveMinuteKey(r) == r.INVENTORY_CURVE_ID * (LastMinute + 1) + r.X
CurveGroup(r) == r.INVENTORY_CURVE_ID
LocationWeek(r) == <<r.LOCATION, r.WEEK_START>>
CellY(r) == r.Y
CellCpc(r) == r.CONSUMPTION_PROFILE_CURVE_ID

\* sort by INVENTORY_CURVE_ID and X, then forward-fill Y within each
\* INVENTORY_CURVE_ID and CONSUMPTION_PROFILE_CURVE_ID within each
\* (LOCATION, WEEK_START)
InventoryForwardFill(merged) ==
    LET sorted == sort_values(merged, CurveMinuteKey)
        y == GroupFfill(sorted, CurveGroup, CellY, NaN)
        withY == [i \in 1 .. Len(sorted) |-> [sorted[i] EXCEPT !.Y = y[i]]]
        cpc == GroupFfill(withY, LocationWeek, CellCpc, NullId)
    IN  [i \in 1 .. Len(withY) |->
            [withY[i] EXCEPT !.CONSUMPTION_PROFILE_CURVE_ID = cpc[i]]]

create_product_inventory(ic) ==
    IF ~IsDataFrame(ic) THEN [raised |-> "TypeError", out |-> <<>>]
    ELSE IF ~HasColumns(ic, InventoryCurveColumns)
    THEN [raised |-> "ValueError", out |-> <<>>]
    ELSE IF MissingTimepoint0(ic) THEN [raised |-> "ValueError", out |-> <<>>]
    ELSE IF MissingTimepointLast(ic) THEN [raised |-> "ValueError", out |-> <<>>]
    ELSE LET ex == Explode(ic)
         IN  [raised |-> "none",
              out |-> InventoryForwardFill(
                          InventoryGridMerge(InventoryTimeGrid(ex), ex))]

----------------------------------------------------------------------------
(* _qos_transformations.py: create_full_time_grid *)

\* the cross merge of the rows of consumption_curves[[LOCATION,
\* CONSUMPTION_PROFILE_CURVE_ID, WEEK_START]] with range(10080)
FullTimeGrid_FromOne(cc) ==
    Concat([i \in 1 .. Len(cc) |->
        [x \in 1 .. LastMinute + 1 |->
            [LOCATION |-> cc[i].LOCATION,
             CONSUMPTION_PROFILE_CURVE_ID |-> cc[i].CONSUMPTION_PROFILE_CURVE_ID,
             WEEK_START |-> cc[i].WEEK_START, X |-> x]]])

FullTimeGrid(cc) ==
    Concat([i \in 1 .. Len(cc) |->
        [x \in 1 .. LastMinute + 1 |->
            [LOCATION |-> cc[i].LOCATION,
             CONSUMPTION_PROFILE_CURVE_ID |-> cc[i].CONSUMPTION_PROFILE_CURVE_ID,
             WEEK_START |-> cc[i].WEEK_START, X |-> x - 1]]])

create_full_time_grid(cc) ==
    IF ~IsDataFrame(cc) THEN [raised |-> "TypeError", out |-> <<>>]
    ELSE IF ~HasColumns(cc, ConsumptionCurveColumns)
    THEN [raised |-> "ValueError", out |-> <<>>]
    ELSE [raised |-> "none", out |-> FullTimeGrid(cc)]

----------------------------------------------------------------------------
(* _qos_metrics.py: calc_product_availability_ratio *)

LocationWeekMinuteKey(r) ==
    (Rank(r.LOCATION) * 3 + Rank(r.WEEK_START)) * (LastMinute + 1) + r.X
LocationWeekKey(r) == Rank(r.LOCATION) * 3 + Rank(r.WEEK_START)
WeekLocationKey(r) == Rank(r.WEEK_START) * 3 + Rank(r.LOCATION)
LocationWeekMinute(r) == <<r.LOCATION, r.WEEK_START, r.X>>
CellPaRatio(r) == r.PA_RATIO

\* groupby(['WEEK_START', 'LOCATION'])['PRODUCT'].nunique().reset_index(),
\* renamed to TOTAL_PRODUCT_COUNT
DistinctProducts_PerLocation(pig) ==
    LET keys == sort_values(
                    drop_duplicates([i \in 1 .. Len(pig) |->
                        [WEEK_START |-> pig[i].WEEK_START,
                         LOCATION |-> pig[i].LOCATION]]),
                    WeekLocationKey)
    IN  [k \in 1 .. Len(keys) |->
            [WEEK_START |-> keys[k].WEEK_START, LOCATION |-> keys[k].LOCATION,
             TOTAL_PRODUCT_COUNT |->
                Cardinality({pig[i].PRODUCT : i \in
                    {j \in 1 .. Len(pig) :
                        pig[j].LOCATION = keys[k].LOCATION}})]]

DistinctProducts(pig) ==
    LET keys == sort_values(
                    drop_duplicates([i \in 1 .. Len(pig) |->
                        [WEEK_START |-> pig[i].WEEK_START,
                         LOCATION |-> pig[i].LOCATION]]),
                    WeekLocationKey)
    IN  [k \in 1 .. Len(keys) |->
            [WEEK_START |-> keys[k].WEEK_START, LOCATION |-> keys[k].LOCATION,
             TOTAL_PRODUCT_COUNT |->
                Cardinality({pig[i].PRODUCT : i \in
                    {j \in 1 .. Len(pig) :
                        /\ pig[j].WEEK_START = keys[k].WEEK_START
                        /\ pig[j].LOCATION = keys[k].LOCATION}})]]

\* (product_inventory_grid['Y'] >= 1).astype(int)
InStock(y) == IF FGe(y, <<1, 1>>) THEN 1 ELSE 0

\* product_inventory_grid with the column PRODUCT_IN_STOCK the stage adds to it
WithProductInStock(pig) ==
    [i \in 1 .. Len(pig) |->
        [LOCATION |-> pig[i].LOCATION, WEEK_START |-> pig[i].WEEK_START,
         X |-> pig[i].X, INVENTORY_CURVE_ID |-> pig[i].INVENTORY_CURVE_ID,
         PRODUCT |-> pig[i].PRODUCT,
         CONSUMPTION_PROFILE_CURVE_ID |-> pig[i].CONSUMPTION_PROFILE_CURVE_ID,
         Y |-> pig[i].Y, PRODUCT_IN_STOCK |-> InStock(pig[i].Y)]]

RECURSIVE SumSeq(_)
SumSeq(x) == IF x = <<>> THEN 0 ELSE Head(x) + SumSeq(Tail(x))

\* groupby(['LOCATION', 'WEEK_START', 'X'])['PRODUCT_IN_STOCK'].sum().reset_index()
ProductsInStock(pis) ==
    LET keys == sort_values(
                    drop_duplicates([i \in 1 .. Len(pis) |-> TimePoint(pis[i])]),
                    LocationWeekMinuteKey)
    IN  [k \in 1 .. Len(keys) |->
            [LOCATION |-> keys[k].LOCATION, WEEK_START |-> keys[k].WEEK_START,
             X |-> keys[k].X,
             PRODUCT_IN_STOCK |->
                LET g == SelectSeq(pis, LAMBDA r : TimePoint(r) = keys[k])
                IN  SumSeq([i \in 1 .. Len(g) |-> g[i].PRODUCT_IN_STOCK])]]

\* validate='many_to_one': the key (LOCATION, WEEK_START) is unique on the right
TotalsMergeValid(dp) == KeysUnique(dp, LocationWeek)

\* products_in_stock.merge(distinct_products, how='left') and
\* PA_RATIO = PRODUCT_IN_STOCK / TOTAL_PRODUCT_COUNT
ParData(stock, dp) ==
    Concat([i \in 1 .. Len(stock) |->
        LET m == SelectSeq(dp, LAMBDA d : LocationWeek(d) = LocationWeek(stock[i]))
        IN  [k \in 1 .. Len(m) |->
                [LOCATION |-> stock[i].LOCATION,
                 WEEK_START |-> stock[i].WEEK_START, X |-> stock[i].X,
                 PA_RATIO |->
                    Frac(stock[i].PRODUCT_IN_STOCK, m[k].TOTAL_PRODUCT_COUNT)]]])

\* the validation with the uniqueness check of the time point grid left out
GridMergeValid_RightOnly(tpg, par) == KeysUnique(par, LocationWeekMinute)

\* validate='one_to_one' of the merge onto the time point grid
GridMergeValid(tpg, par) ==
    KeysUnique(tpg, LocationWeekMinute) /\ KeysUnique(par, LocationWeekMinute)

\* time_point_grid.merge(par_data, how='left', on LOCATION, WEEK_START, X),
\* PRODUCT_IN_STOCK and TOTAL_PRODUCT_COUNT dropped
GridParMerge_Inner(tpg, par) ==
    Concat([g \in 1 .. Len(tpg) |->
        LET m == SelectSeq(par,
                    LAMBDA r : LocationWeekMinute(r) = LocationWeekMinute(tpg[g]))
        IN  [k \in 1 .. Len(m) |->
                [LOCATION |-> tpg[g].LOCATION,
                 CONSUMPTION_PROFILE_CURVE_ID |-> tpg[g].CONSUMPTION_PROFILE_CURVE_ID,
                 WEEK_START |-> tpg[g].WEEK_START, X |-> tpg[g].X,
                 PA_RATIO |-> m[k].PA_RATIO]]])

GridParMerge(tpg, par) ==
    Concat([g \in 1 .. Len(tpg) |->
        LET m == SelectSeq(par,
                    LAMBDA r : LocationWeekMinute(r) = LocationWeekMinute(tpg[g]))
            Row(v) ==
                [LOCATION |-> tpg[g].LOCATION,
                 CONSUMPTION_PROFILE_CURVE_ID |-> tpg[g].CONSUMPTION_PROFILE_CURVE_ID,
                 WEEK_START |-> tpg[g].WEEK_START, X |-> tpg[g].X, PA_RATIO |-> v]
        IN  IF m = <<>> THEN <<Row(NaN)>>
            ELSE [k \in 1 .. Len(m) |-> Row(m[k].PA_RATIO)]])

\* sort by LOCATION, WEEK_START, X and forward-fill PA_RATIO within each
\* (LOCATION, WEEK_START)
ParForwardFill(merged) ==
    LET sorted == sort_values(merged, LocationWeekMinuteKey)
        v == GroupFfill(sorted, LocationWeek, CellPaRatio, NaN)
    IN  [i \in 1 .. Len(sorted) |-> [sorted[i] EXCEPT !.PA_RATIO = v[i]]]

\* the call: what it raises, what it returns, and product_inventory_grid as
\* it leaves it
calc_product_availability_ratio(pig, tpg) ==
    LET dp == DistinctProducts(pig)
        pis == WithProductInStock(pig)
        par == ParData(ProductsInStock(pis), dp)
    IN  IF ~IsDataFrame(pig) \/ ~IsDataFrame(tpg)
        THEN [raised |-> "TypeError", product_inventory_grid |-> pig, out |-> <<>>]
        ELSE IF ~HasColumns(pig, InventoryCurveColumns)
        THEN [raised |-> "ValueError", product_inventory_grid |-> pig, out |-> <<>>]
        ELSE IF ~HasColumns(tpg, TimePointGridColumns)
        THEN [raised |-> "ValueError", product_inventory_grid |-> pig, out |-> <<>>]
        ELSE IF ~TotalsMergeValid(dp)
        THEN [raised |-> "MergeError", product_inventory_grid |-> pis, out |-> <<>>]
        ELSE IF ~GridMergeValid(tpg, par)
        THEN [raised |-> "MergeError", product_inventory_grid |-> pis, out |-> <<>>]
        ELSE [raised |-> "none", product_inventory_grid |-> pis,
              out |-> ParForwardFill(GridParMerge(tpg, par))]

----------------------------------------------------------------------------
(* _qos_transformations.py: interpolate_consumption_curves *)

GridKey(r) ==
    <<r.LOCATION, r.CONSUMPTION_PROFILE_CURVE_ID, r.WEEK_START, r.X>>

\* time_point_grid.merge(consumption_curves, how='left', on LOCATION,
\* CONSUMPTION_PROFILE_CURVE_ID, WEEK_START, X)
GridConsumptionMerge(tpg, ex) ==
    Concat([g \in 1 .. Len(tpg) |->
        LET m == SelectSeq(ex, LAMBDA r : GridKey(r) = GridKey(tpg[g]))
            Row(y) ==
                [LOCATION |-> tpg[g].LOCATION,
                 CONSUMPTION_PROFILE_CURVE_ID |-> tpg[g].CONSUMPTION_PROFILE_CURVE_ID,
                 WEEK_START |-> tpg[g].WEEK_START, X |-> tpg[g].X, Y |-> y]
        IN  IF m = <<>> THEN <<Row(NaN)>>
            ELSE [k \in 1 .. Len(m) |-> Row(m[k].Y)]])

\* the point at position i of the line from (a, ya) to (b, yb)
LinearBetween(a, ya, b, yb, i) ==
    Frac(ya[1] * yb[2] * (b - a) + (i - a) * (yb[1] * ya[2] - ya[1] * yb[2]),
         ya[2] * yb[2] * (b - a))

\* Series.interpolate(method='linear'): rows are equally spaced; a NaN between
\* two values lies on their line, a NaN after the last value repeats it, a
\* NaN before the first value stays
InterpolateLinear(y) ==
    [i \in 1 .. Len(y) |->
        IF ~IsNaN(y[i]) THEN y[i]
        ELSE LET before == {j \in 1 .. i - 1 : ~IsNaN(y[j])}
                 after == {j \in i + 1 .. Len(y) : ~IsNaN(y[j])}
             IN  IF before = {} THEN NaN
                 ELSE LET a == CHOOSE j \in before : \A k \in before : k <= j
                      IN  IF after = {} THEN y[a]
                          ELSE LET b == CHOOSE j \in after : \A k \in after : j <= k
                               IN  LinearBetween(a, y[a], b, y[b], i)]

interpolate_consumption_curves(cc, tpg) ==
    IF MissingTimepoint0(cc) THEN [raised |-> "ValueError", out |-> <<>>]
    ELSE IF MissingTimepointLast(cc) THEN [raised |-> "ValueError", out |-> <<>>]
    ELSE LET sorted == sort_values(GridConsumptionMerge(tpg, Explode(cc)),
                                   LocationWeekMinuteKey)
             y == InterpolateLinear([i \in 1 .. Len(sorted) |-> sorted[i].Y])
         IN  [raised |-> "none",
              out |-> [i \in 1 .. Len(sorted) |->
                        [LOCATION |-> sorted[i].LOCATION,
                         CONSUMPTION_PROFILE_CURVE_ID |->
                            sorted[i].CONSUMPTION_PROFILE_CURVE_ID,
                         WEEK_START |-> sorted[i].WEEK_START, X |-> sorted[i].X,
                         CONSUMPTION_Y |-> y[i]]]]

----------------------------------------------------------------------------
(* _qos_metrics.py: calc_quality_of_service *)

\* validate='one_to_one' of the merge of the two per-minute series
QosMergeValid(cci, par) == KeysUnique(cci, GridKey) /\ KeysUnique(par, GridKey)

\* consumption_curves_interp.merge(product_availability_ratio, how='left') and
\* QOS = PA_RATIO * CONSUMPTION_Y per row
ParConsumData(cci, par) ==
    Concat([i \in 1 .. Len(cci) |->
        LET m == SelectSeq(par, LAMBDA r : GridKey(r) = GridKey(cci[i]))
            Row(v) ==
                [LOCATION |-> cci[i].LOCATION, WEEK_START |-> cci[i].WEEK_START,
                 X |-> cci[i].X, QOS |-> FMul(v, cci[i].CONSUMPTION_Y)]
        IN  IF m = <<>> THEN <<Row(NaN)>>
            ELSE [k \in 1 .. Len(m) |-> Row(m[k].PA_RATIO)]])

\* Series.sum() of a group: NaN cells are skipped
RECURSIVE SumSkipNa(_)
SumSkipNa(v) ==
    IF v = <<>> THEN <<0, 1>>
    ELSE IF IsNaN(Head(v)) THEN SumSkipNa(Tail(v))
    ELSE FAdd(Head(v), SumSkipNa(Tail(v)))

\* groupby(['LOCATION', 'WEEK_START'])['QOS'].sum()
QosGroupSum(pcd) ==
    LET keys == sort_values(
                    drop_duplicates([i \in 1 .. Len(pcd) |->
                        [LOCATION |-> pcd[i].LOCATION,
                         WEEK_START |-> pcd[i].WEEK_START]]),
                    LocationWeekKey)
    IN  [k \in 1 .. Len(keys) |->
            [LOCATION |-> keys[k].LOCATION, WEEK_START |-> keys[k].WEEK_START,
             QOS |->
                LET g == SelectSeq(pcd,
                            LAMBDA r : LocationWeek(r) = LocationWeek(keys[k]))
                IN  SumSkipNa([i \in 1 .. Len(g) |-> g[i].QOS])]]

calc_quality_of_service(cci, par) ==
    IF ~IsDataFrame(cci) \/ ~IsDataFrame(par)
    THEN [raised |-> "TypeError", out |-> <<>>]
    ELSE IF ~HasColumns(cci, ConsumptionInterpColumns)
            \/ ~HasColumns(par, AvailabilityColumns)
    THEN [raised |-> "ValueError", out |-> <<>>]
    ELSE IF ~QosMergeValid(cci, par) THEN [raised |-> "MergeError", out |-> <<>>]
    ELSE [raised |-> "none", out |-> QosGroupSum(ParConsumData(cci, par))]

----------------------------------------------------------------------------
(* Inputs *)

\* the float values a sample takes in the model: 0, 0.5 and 1
YVals == {<<0, 1>>, <<1, 2>>, <<1, 1>>}

\* the elements of a set of minutes in increasing order
Ascending(S) ==
    [i \in 1 .. Cardinality(S) |->
        CHOOSE m \in S : Cardinality({n \in S : n < m}) = i - 1]

\* the minutes of a curve: strictly increasing, within the week
MinuteSeqs == {Ascending(S) : S \in (SUBSET (0 .. LastMinute)) \ {{}}}

\* the parallel lists X and Y of one curve
Samples ==
    UNION {{[X |-> x, Y |-> y] : y \in [1 .. Len(x) -> YVals]} : x \in MinuteSeqs}

SeqsUpTo(S, n) == UNION {[1 .. k -> S] : k \in 1 .. n}

\* the tables with the rows of S in non-decreasing order of Key: one table
\* for each multiset of at most n rows
TablesUpTo(S, n, Key(_)) ==
    {t \in SeqsUpTo(S, n) : \A i \in 1 .. Len(t) - 1 : Key(t[i]) <= Key(t[i + 1])}

DemandRow(l, p, i, c, d) ==
    [LOCATION |-> l, PRODUCT |-> p, INVENTORY_CURVE_ID |-> i,
     CONSUMPTION_PROFILE_CURVE_ID |-> c, DATE |-> d]

CurveRow(id, t, w, s) ==
    [CURVE_ID |-> id, CURVE_TYPE |-> t, WEEK_START |-> w, X |-> s.X, Y |-> s.Y]

\* rows of qos_data.csv
DemandRows ==
    {DemandRow(l, p, i, c, d) :
        l \in Locations, p \in Products, i \in {1, 2}, c \in {2, 3}, d \in Dates}

\* a curve sampled at the first and the last minute only, with value v
Flat(v) == [X |-> <<0, LastMinute>>, Y |-> <<v, v>>]

\* the profile of an even demand: 1 / (number of minutes) at every minute
Uniform == Flat(Frac(1, LastMinute + 1))

\* the curves whose samples take the values 0 and 1 and cover the week
CoveringSamples ==
    {s \in Samples :
        /\ s.X[1] = 0
        /\ s.X[Len(s.X)] = LastMinute
        /\ \A k \in 1 .. Len(s.Y) : s.Y[k] \in {<<0, 1>>, <<1, 1>>}}

TypeRank(t) == IF t = "inventory" THEN 0 ELSE 1
CurveRowKey(c) == (c.CURVE_ID * 2 + TypeRank(c.CURVE_TYPE)) * 3 + Rank(c.WEEK_START)

\* the first row of qos_data.csv in every input of the model (the names of
\* locations, products, curves and dates are interchangeable)
FirstDemandRow == DemandRow("A", "p1", 1, 3, "d1")

\* Inputs that vary the joins: any second row of qos_data.csv (of another
\* date only when it repeats the first row), any table of at most MaxCurves
\* different curves of either type, each curve flat at 1
JoinInputs ==
    {<<d, c>> :
        d \in {<<FirstDemandRow>>}
              \cup {<<FirstDemandRow, r>> : r \in
                        IF MaxDemand >= 2
                        THEN {q \in DemandRows :
                                \/ q.DATE = FirstDemandRow.DATE
                                \/ DropDate(q) = DropDate(FirstDemandRow)}
                        ELSE {}},
        c \in {t \in TablesUpTo(
                        {CurveRow(id, ty, w, Flat(<<1, 1>>)) :
                            id \in CurveIds, ty \in CurveTypes, w \in Weeks},
                        MaxCurves, CurveRowKey) :
                    \A i \in 1 .. Len(t) - 1 : t[i] # t[i + 1]}}

\* the curves of CoveringSamples sampled at the first and the last minute only
TwoPointSamples == {s \in CoveringSamples : Len(s.X) = 2}

\* the samples of inventory curves 1 and 2 when both are present: curve 1
\* with any samples beside a flat curve 2, or both covering the week and one
\* of them sampled at the first and the last minute only
InventoryPairs ==
    (Samples \X {Flat(<<0, 1>>), Flat(<<1, 1>>)})
        \cup (CoveringSamples \X TwoPointSamples)
        \cup (TwoPointSamples \X CoveringSamples)

\* Inputs that vary the inventory: one location with an even consumption
\* profile, inventory curve 1 in either week, alone with any samples or
\* beside a second record with inventory curve 2
InventoryInputs ==
    {<< <<FirstDemandRow>>,
        <<CurveRow(1, "inventory", w, s),
          CurveRow(3, "consumption_profile", "w1", Uniform)>> >> :
        w \in Weeks, s \in Samples}
    \cup
    {<< <<FirstDemandRow, DemandRow("A", p, 2, 3, "d1")>>,
        <<CurveRow(1, "inventory", w, s[1]),
          CurveRow(2, "inventory", "w1", s[2]),
          CurveRow(3, "consumption_profile", "w1", Uniform)>> >> :
        p \in IF MaxDemand >= 2 THEN Products ELSE {},
        w \in Weeks, s \in InventoryPairs}

\* Inputs that vary the consumption profile: one location and one product in
\* stock all week, consumption curve 3 with any samples in either week
ConsumptionInputs ==
    {<< <<FirstDemandRow>>,
        <<CurveRow(1, "inventory", "w1", Flat(<<1, 1>>)),
          CurveRow(3, "consumption_profile", w, s)>> >> :
        w \in Weeks, s \in Samples}

\* Inputs with two (location, week) partitions: the first partition holds
\* product p1 with inventory curve 1 and consumption curve 3 in week w1 at
\* location A, the second holds a product with inventory curve 2 and
\* consumption curve 2
PartitionInputs ==
    {<< <<FirstDemandRow, DemandRow(l, p, 2, 2, "d1")>>,
        <<CurveRow(1, "inventory", "w1", s),
          CurveRow(2, "inventory", w, Flat(v)),
          CurveRow(3, "consumption_profile", "w1",
                   [X |-> <<0, LastMinute>>, Y |-> <<(<<0, 1>>), (<<1, 1>>)>>]),
          CurveRow(2, "consumption_profile", w, Flat(u))>> >> :
        l \in Locations, p \in Products, w \in Weeks, s \in CoveringSamples,
        v \in {<<0, 1>>, <<1, 1>>}, u \in {<<0, 1>>, <<1, 2>>}}

----------------------------------------------------------------------------
(* _qos_read_write.py: write_data, and qos_api.py *)

\* datetime.now().strftime('%y%m%d%H%M') at the time of a run
Datetimes == {"2306120900"}

\* _qos_read_write.py 105: f'{filename}_{datetime_str}.csv'
OutputFileName(filename, datetime_str) == filename \o "_" \o datetime_str \o ".csv"

\* qos_api.py 24: the file the query service opens in the output folder
ApiFileName == "qos_output.csv"

\* the text of a float cell: empty for NaN, else the digits of the number
\* (written here as the digits of its fraction)
FloatText(f) == IF IsNaN(f) THEN "" ELSE ToString(f[1]) \o "/" \o ToString(f[2])

\* data.to_csv(..., index=True) of the result of calc_quality_of_service: the
\* index levels LOCATION and WEEK_START, then the column QOS, every cell text
to_csv(data) ==
    [header |-> <<"LOCATION", "WEEK_START", "QOS">>,
     lines |-> [i \in 1 .. Len(data) |->
                    <<data[i].LOCATION, data[i].WEEK_START, FloatText(data[i].QOS)>>]]

\* the output folder after write_data: a file of the same name is replaced
write_data(folder, data, filename, datetime_str) ==
    {f \in folder : f.name # OutputFileName(filename, datetime_str)}
    \cup {[name |-> OutputFileName(filename, datetime_str), content |-> to_csv(data)]}

\* csv.DictReader: one dict per line, from the names of the header to the
\* cells of the line
DictReader(content) ==
    [i \in 1 .. Len(content.lines) |->
        [c \in Range(content.header) |->
            content.lines[i][CHOOSE k \in 1 .. Len(content.header) :
                                content.header[k] = c]]]

\* the routes of qos_api.py: jsonify of the whole list or of the rows that
\* pass the filter, always with status 200
get_qos_data(data) == [status |-> 200, json |-> data]

get_qos_by_location(data, location) ==
    [status |-> 200,
     json |-> SelectSeq(data, LAMBDA i : i["LOCATION"] = location)]

\* the filter on the week left out
get_qos_by_location_and_date_Location(data, location, week_start) ==
    [status |-> 200,
     json |-> SelectSeq(data, LAMBDA i : i["LOCATION"] = location)]

get_qos_by_location_and_date(data, location, week_start) ==
    [status |-> 200,
     json |-> SelectSeq(SelectSeq(data, LAMBDA i : i["LOCATION"] = location),
                        LAMBDA i : i["WEEK_START"] = week_start)]

get_qos_by_date(data, week_start) ==
    [status |-> 200,
     json |-> SelectSeq(data, LAMBDA i : i["WEEK_START"] = week_start)]

\* a request and its response
Response(route, location, week_start, r) ==
    [route |-> route, location |-> location, week_start |-> week_start,
     status |-> r.status, json |-> r.json]

NoResponse == Response("none", "", "", [status |-> 0, json |-> <<>>])

\* the query service before it is started
ApiDown ==
    /\ api = "down"
    /\ api_qos_data = <<>>
    /\ response = NoResponse

\* the locations and weeks a client asks for: those of the data and one more
RequestLocations == Locations \cup {"C"}
RequestWeeks == Weeks \cup {"w3"}

----------------------------------------------------------------------------
(* main.py: main *)

Unset == <<>>

\* main() after it has read qos_data.csv and qos_curves.csv
InitMain ==
    /\ entry = "main"
    /\ pc = "transform_qos_data"
    /\ raised = "none"
    /\ log = <<>>
    /\ given = <<>>
    /\ first_qos = <<>>
    /\ written = <<>>
    /\ propagated = "none"
    /\ files = {}
    /\ ApiDown
    /\ \E in \in JoinInputs \cup InventoryInputs \cup ConsumptionInputs
                \cup PartitionInputs :
        /\ qos_data = in[1]
        /\ qos_curves = in[2]
    /\ inventory_curves = Unset
    /\ consumption_curves = Unset
    /\ product_inventory_grid = Unset
    /\ time_point_grid = Unset
    /\ product_availability_ratio = Unset
    /\ consumption_curves_interp = Unset
    /\ qos = Unset

\* the callers that run the six stages in the order of main()
InPipeline == entry \in {"main", "pipeline"}

\* the caller runs the next statement whatever the stage did
After_Continue(r, next) == IF InPipeline THEN next ELSE "returned"

\* where the caller goes after a stage: the pipeline runs the next statement,
\* a direct call returns, and an exception ends either
After(r, next) ==
    IF r.raised # "none" THEN "raised"
    ELSE IF InPipeline THEN next ELSE "returned"

\* main.py 52-53
CallTransformQosData ==
    /\ UNCHANGED <<files, api, api_qos_data, response>>
    /\ pc = "transform_qos_data"
    /\ log' = Append(log, "transform_qos_data")
    /\ given' = <<qos_data, qos_curves>>
    /\ LET r == transform_qos_data(qos_data, qos_curves)
       IN  /\ pc' = After(r, "create_product_inventory")
           /\ raised' = r.raised
           /\ qos_data' = r.qos_data
           /\ inventory_curves' = r.inventory_curves
           /\ consumption_curves' = r.consumption_curves
    /\ UNCHANGED <<entry, qos_curves, product_inventory_grid, time_point_grid,
                   product_availability_ratio, consumption_curves_interp, qos,
                   first_qos, written, propagated>>

\* main.py 56
CallCreateProductInventory ==
    /\ UNCHANGED <<files, api, api_qos_data, response>>
    /\ pc = "create_product_inventory"
    /\ log' = Append(log, "create_product_inventory")
    /\ given' = <<inventory_curves>>
    /\ LET r == create_product_inventory(inventory_curves)
       IN  /\ pc' = After(r, "create_full_time_grid")
           /\ raised' = r.raised
           /\ product_inventory_grid' = r.out
    /\ UNCHANGED <<entry, qos_data, qos_curves, inventory_curves,
                   consumption_curves, time_point_grid,
                   product_availability_ratio, consumption_curves_interp, qos,
                   first_qos, written, propagated>>

\* main.py 59
CallCreateFullTimeGrid ==
    /\ UNCHANGED <<files, api, api_qos_data, response>>
    /\ pc = "create_full_time_grid"
    /\ log' = Append(log, "create_full_time_grid")
    /\ given' = <<consumption_curves>>
    /\ LET r == create_full_time_grid(consumption_curves)
       IN  /\ pc' = After(r, "calc_product_availability_ratio")
           /\ raised' = r.raised
           /\ time_point_grid' = r.out
    /\ UNCHANGED <<entry, qos_data, qos_curves, inventory_curves,
                   consumption_curves, product_inventory_grid,
                   product_availability_ratio, consumption_curves_interp, qos,
                   first_qos, written, propagated>>

\* main.py 62-65
CallCalcProductAvailabilityRatio ==
    /\ UNCHANGED <<files, api, api_qos_data, response>>
    /\ pc = "calc_product_availability_ratio"
    /\ log' = Append(log, "calc_product_availability_ratio")
    /\ given' = <<product_inventory_grid, time_point_grid>>
    /\ LET r == calc_product_availability_ratio(product_inventory_grid,
                                                time_point_grid)
       IN  /\ pc' = After(r, "interpolate_consumption_curves")
           /\ raised' = r.raised
           /\ product_inventory_grid' = r.product_inventory_grid
           /\ product_availability_ratio' = r.out
    /\ UNCHANGED <<entry, qos_data, qos_curves, inventory_curves,
                   consumption_curves, time_point_grid,
                   consumption_curves_interp, qos,
                   first_qos, written, propagated>>

\* main.py 68-71
CallInterpolateConsumptionCurves ==
    /\ UNCHANGED <<files, api, api_qos_data, response>>
    /\ pc = "interpolate_consumption_curves"
    /\ log' = Append(log, "interpolate_consumption_curves")
    /\ given' = <<consumption_curves, time_point_grid>>
    /\ LET r == interpolate_consumption_curves(consumption_curves, time_point_grid)
       IN  /\ pc' = After(r, "calc_quality_of_service")
           /\ raised' = r.raised
           /\ consumption_curves_interp' = r.out
    /\ UNCHANGED <<entry, qos_data, qos_curves, inventory_curves,
                   consumption_curves, product_inventory_grid, time_point_grid,
                   product_availability_ratio, qos,
                   first_qos, written, propagated>>

\* main.py 74-77
CallCalcQualityOfService ==
    /\ UNCHANGED <<files, api, api_qos_data, response>>
    /\ pc = "calc_quality_of_service"
    /\ log' = Append(log, "calc_quality_of_service")
    /\ given' = <<consumption_curves_interp, product_availability_ratio>>
    /\ LET r == calc_quality_of_service(consumption_curves_interp,
                                        product_availability_ratio)
           first == Len(log) < 6
       IN  /\ pc' = After(r, IF entry = "main" THEN "write_data"
                             ELSE IF first THEN "transform_qos_data"
                             ELSE "returned")
           /\ raised' = r.raised
           /\ qos' = r.out
           /\ first_qos' = IF entry = "pipeline" /\ first THEN r.out
                           ELSE first_qos
    /\ UNCHANGED <<entry, qos_data, qos_curves, inventory_curves,
                   consumption_curves, product_inventory_grid, time_point_grid,
                   product_availability_ratio, consumption_curves_interp,
                   written, propagated>>

\* main.py 89-95 and _qos_read_write.py 86-106: with use_db false the result
\* is written to a csv file of the output folder
CallWriteData ==
    /\ pc = "write_data"
    /\ log' = Append(log, "write_data")
    /\ given' = <<qos>>
    /\ written' = Append(written, qos)
    /\ \E datetime_str \in Datetimes :
        files' = write_data(files, qos, "qos_output", datetime_str)
    /\ pc' = "finished"
    /\ UNCHANGED <<api, api_qos_data, response>>
    /\ UNCHANGED <<entry, raised, qos_data, qos_curves, inventory_curves,
                   consumption_curves, product_inventory_grid, time_point_grid,
                   product_availability_ratio, consumption_curves_interp, qos,
                   first_qos, propagated>>

\* main.py 103-119: every except clause logs the exception and raises it again
ExceptHandler ==
    /\ UNCHANGED <<files, api, api_qos_data, response>>
    /\ entry = "main"
    /\ pc = "raised"
    /\ propagated = "none"
    /\ propagated' = raised
    /\ UNCHANGED <<entry, pc, raised, log, qos_data, qos_curves,
                   inventory_curves, consumption_curves, product_inventory_grid,
                   time_point_grid, product_availability_ratio,
                   consumption_curves_interp, qos, given, first_qos, written>>

\* a caller that runs the six stages of main.py 51-77 twice on the frames it
\* holds
InitPipeline ==
    /\ entry = "pipeline"
    /\ pc = "transform_qos_data"
    /\ raised = "none"
    /\ log = <<>>
    /\ given = <<>>
    /\ first_qos = <<>>
    /\ written = <<>>
    /\ propagated = "none"
    /\ files = {}
    /\ ApiDown
    /\ \E in \in ConsumptionInputs :
        /\ qos_data = in[1]
        /\ qos_curves = in[2]
    /\ inventory_curves = Unset
    /\ consumption_curves = Unset
    /\ product_inventory_grid = Unset
    /\ time_point_grid = Unset
    /\ product_availability_ratio = Unset
    /\ consumption_curves_interp = Unset
    /\ qos = Unset

\* a consumption record as transform_qos_data returns it
ConsumptionRecord(l, c, w, s) ==
    [LOCATION |-> l, CONSUMPTION_PROFILE_CURVE_ID |-> c, WEEK_START |-> w,
     X |-> s.X, Y |-> s.Y]

\* an inventory record as transform_qos_data returns it
InventoryRecord(l, p, i, c, w, s) ==
    [LOCATION |-> l, PRODUCT |-> p, INVENTORY_CURVE_ID |-> i,
     CONSUMPTION_PROFILE_CURVE_ID |-> c, WEEK_START |-> w, X |-> s.X, Y |-> s.Y]

\* an argument of a direct call in the shapes the unit tests pass: the frame
\* itself, the frame without one of its columns, and something that is not a
\* frame
Shapes(t, column) == {t, DropColumn(t, column), NotADataFrame}

\* tests/test_qos_transformations.py, TestCreateFullTimeGrid: the stage called
\* on a table of at most two consumption records
GridCallInputs ==
    SeqsUpTo(
        {[LOCATION |-> l, CONSUMPTION_PROFILE_CURVE_ID |-> c, WEEK_START |-> w,
          X |-> s.X, Y |-> s.Y] :
            l \in Locations, c \in {2, 3}, w \in Weeks,
            s \in {Flat(<<1, 2>>), [X |-> <<1>>, Y |-> <<(<<1, 1>>)>>]}},
        2)

\* the same stage called on one record in every shape
GridCallShapes ==
    Shapes(<<ConsumptionRecord("A", 3, "w1", Flat(<<1, 1>>))>>, "WEEK_START")

InitCreateFullTimeGrid ==
    /\ entry = "create_full_time_grid"
    /\ pc = "create_full_time_grid"
    /\ raised = "none"
    /\ log = <<>>
    /\ given = <<>>
    /\ first_qos = <<>>
    /\ written = <<>>
    /\ propagated = "none"
    /\ files = {}
    /\ ApiDown
    /\ consumption_curves \in GridCallInputs \cup GridCallShapes
    /\ qos_data = Unset
    /\ qos_curves = Unset
    /\ inventory_curves = Unset
    /\ product_inventory_grid = Unset
    /\ time_point_grid = Unset
    /\ product_availability_ratio = Unset
    /\ consumption_curves_interp = Unset
    /\ qos = Unset

\* tests/test_qos_metrics.py, TestCreateProductInventory: the stage called on
\* one inventory record, covering the week or not, in every shape
InventoryCallInputs ==
    UNION {Shapes(<<InventoryRecord("A", "p1", 1, 3, "w1", s)>>, "LOCATION") :
            s \in {Flat(<<1, 1>>), [X |-> <<1>>, Y |-> <<(<<1, 1>>)>>]}}

InitCreateProductInventory ==
    /\ entry = "create_product_inventory"
    /\ pc = "create_product_inventory"
    /\ raised = "none"
    /\ log = <<>>
    /\ given = <<>>
    /\ first_qos = <<>>
    /\ written = <<>>
    /\ propagated = "none"
    /\ files = {}
    /\ ApiDown
    /\ inventory_curves \in InventoryCallInputs
    /\ qos_data = Unset
    /\ qos_curves = Unset
    /\ consumption_curves = Unset
    /\ product_inventory_grid = Unset
    /\ time_point_grid = Unset
    /\ product_availability_ratio = Unset
    /\ consumption_curves_interp = Unset
    /\ qos = Unset

\* tests/test_qos_metrics.py, TestCalcProductAvailabilityRatio: the stage
\* called on the inventory of one product at any minutes of the week and on
\* the time point grid of its location and week, each in every shape
AvailabilityCallGrids ==
    {Explode(<<InventoryRecord("A", "p1", 1, 3, "w1", s)>>) : s \in Samples}
    \cup Shapes(Explode(<<InventoryRecord("A", "p1", 1, 3, "w1", Flat(<<1, 1>>))>>),
                "Y")

AvailabilityCallTimePoints ==
    Shapes(FullTimeGrid(<<ConsumptionRecord("A", 3, "w1", Flat(<<1, 1>>))>>), "X")

InitCalcProductAvailabilityRatio ==
    /\ entry = "calc_product_availability_ratio"
    /\ pc = "calc_product_availability_ratio"
    /\ raised = "none"
    /\ log = <<>>
    /\ given = <<>>
    /\ first_qos = <<>>
    /\ written = <<>>
    /\ propagated = "none"
    /\ files = {}
    /\ ApiDown
    /\ product_inventory_grid \in AvailabilityCallGrids
    /\ time_point_grid \in AvailabilityCallTimePoints
    /\ qos_data = Unset
    /\ qos_curves = Unset
    /\ inventory_curves = Unset
    /\ consumption_curves = Unset
    /\ product_availability_ratio = Unset
    /\ consumption_curves_interp = Unset
    /\ qos = Unset

\* tests/test_qos_transformations.py, TestInterpolateConsumptionCurves: the
\* stage called on one or two consumption records that cover the week (the
\* second a repetition of the first, another curve of the same location and
\* week, or a curve of another week or location; one of the two sampled at
\* the first and the last minute only) and on their time point grid
InterpolateCallInputs ==
    {<<ConsumptionRecord("A", 3, "w1", s)>> : s \in CoveringSamples}
    \cup
    {<<ConsumptionRecord("A", 3, "w1", p[1]), ConsumptionRecord(k[1], k[2], k[3], p[2])>> :
        p \in (CoveringSamples \X TwoPointSamples)
                \cup (TwoPointSamples \X CoveringSamples),
        k \in {<<"A", 3, "w1">>, <<"A", 2, "w1">>, <<"A", 2, "w2">>,
               <<"B", 2, "w1">>}}

InitInterpolateConsumptionCurves ==
    /\ entry = "interpolate_consumption_curves"
    /\ pc = "interpolate_consumption_curves"
    /\ raised = "none"
    /\ log = <<>>
    /\ given = <<>>
    /\ first_qos = <<>>
    /\ written = <<>>
    /\ propagated = "none"
    /\ files = {}
    /\ ApiDown
    /\ consumption_curves \in InterpolateCallInputs
    /\ time_point_grid = FullTimeGrid(consumption_curves)
    /\ qos_data = Unset
    /\ qos_curves = Unset
    /\ inventory_curves = Unset
    /\ product_inventory_grid = Unset
    /\ product_availability_ratio = Unset
    /\ consumption_curves_interp = Unset
    /\ qos = Unset

\* the keys of the per-minute rows of the direct calls of calc_quality_of_service
MinuteKeys == Locations \X {3} \X {"w1"} \X {0, 1}
MinuteKeyRank(r) == Rank(r.LOCATION) * 2 + r.X

\* tests/test_qos_metrics.py, TestCalcQualityOfService: the stage called on
\* two tables of at most two rows each
QosCallConsumption ==
    TablesUpTo(
        {[LOCATION |-> k[1], CONSUMPTION_PROFILE_CURVE_ID |-> k[2],
          WEEK_START |-> k[3], X |-> k[4], CONSUMPTION_Y |-> v] :
            k \in MinuteKeys, v \in {<<1, 2>>, <<1, 1>>}},
        2, MinuteKeyRank)

QosCallAvailability ==
    TablesUpTo(
        {[LOCATION |-> k[1], CONSUMPTION_PROFILE_CURVE_ID |-> k[2],
          WEEK_START |-> k[3], X |-> k[4], PA_RATIO |-> v] :
            k \in MinuteKeys, v \in {NaN, <<1, 2>>, <<1, 1>>}},
        2, MinuteKeyRank)

\* the same stage called on tables of one row in every shape
QosCallShapes ==
    <<Shapes(<<[LOCATION |-> "A", CONSUMPTION_PROFILE_CURVE_ID |-> 3,
                WEEK_START |-> "w1", X |-> 0, CONSUMPTION_Y |-> <<1, 1>>]>>,
             "CONSUMPTION_Y"),
      Shapes(<<[LOCATION |-> "A", CONSUMPTION_PROFILE_CURVE_ID |-> 3,
                WEEK_START |-> "w1", X |-> 0, PA_RATIO |-> <<1, 1>>]>>,
             "PA_RATIO")>>

InitCalcQualityOfService ==
    /\ entry = "calc_quality_of_service"
    /\ pc = "calc_quality_of_service"
    /\ raised = "none"
    /\ log = <<>>
    /\ given = <<>>
    /\ first_qos = <<>>
    /\ written = <<>>
    /\ propagated = "none"
    /\ files = {}
    /\ ApiDown
    /\ consumption_curves_interp \in QosCallConsumption \cup QosCallShapes[1]
    /\ product_availability_ratio \in QosCallAvailability \cup QosCallShapes[2]
    /\ qos_data = Unset
    /\ qos_curves = Unset
    /\ inventory_curves = Unset
    /\ consumption_curves = Unset
    /\ product_inventory_grid = Unset
    /\ time_point_grid = Unset
    /\ qos = Unset

\* the variables of the pipeline, which the query service never touches
pipelineVars ==
    <<entry, pc, raised, log, qos_data, qos_curves, inventory_curves,
      consumption_curves, product_inventory_grid, time_point_grid,
      product_availability_ratio, consumption_curves_interp, qos,
      given, first_qos, written, propagated, files>>

\* qos_api.py 21-31: the module opens qos_output.csv of the output folder and
\* loads its rows; open() raises FileNotFoundError when there is no such file
ImportQosApi ==
    /\ api = "down"
    /\ pc = "finished"
    /\ IF \E f \in files : f.name = ApiFileName
       THEN /\ api' = "up"
            /\ api_qos_data' =
                    DictReader((CHOOSE f \in files : f.name = ApiFileName).content)
       ELSE /\ api' = "failed"
            /\ api_qos_data' = <<>>
    /\ UNCHANGED <<pipelineVars, response>>

\* qos_api.py 33-36
GetQosData ==
    /\ api = "up"
    /\ response' = Response("/qos", "", "", get_qos_data(api_qos_data))
    /\ UNCHANGED <<pipelineVars, api, api_qos_data>>

\* qos_api.py 38-42
GetQosByLocation ==
    /\ api = "up"
    /\ \E location \in RequestLocations :
        response' = Response("/qos/location/<location>", location, "",
                             get_qos_by_location(api_qos_data, location))
    /\ UNCHANGED <<pipelineVars, api, api_qos_data>>

\* qos_api.py 44-49
GetQosByLocationAndDate ==
    /\ api = "up"
    /\ \E location \in RequestLocations : \E week_start \in RequestWeeks :
        response' = Response("/qos/location/<location>/<week_start>",
                             location, week_start,
                             get_qos_by_location_and_date(api_qos_data, location,
                                                          week_start))
    /\ UNCHANGED <<pipelineVars, api, api_qos_data>>

\* qos_api.py 52-56
GetQosByDate ==
    /\ api = "up"
    /\ \E week_start \in RequestWeeks :
        response' = Response("/qos/week/<week_start>", "", week_start,
                             get_qos_by_date(api_qos_data, week_start))
    /\ UNCHANGED <<pipelineVars, api, api_qos_data>>

\* the results an output folder holds as qos_output.csv: at most two rows
DeployedResults ==
    {<<>>} \cup SeqsUpTo(
        {[LOCATION |-> l, WEEK_START |-> w, QOS |-> q] :
            l \in Locations, w \in Weeks, q \in {<<0, 1>>, <<1, 2>>}},
        2)

\* tests/test_api.py: the query service started on an output folder that
\* holds a qos_output.csv
InitQosApi ==
    /\ entry = "qos_api"
    /\ pc = "finished"
    /\ raised = "none"
    /\ log = <<>>
    /\ given = <<>>
    /\ first_qos = <<>>
    /\ written = <<>>
    /\ propagated = "none"
    /\ \E data \in DeployedResults :
        files = {[name |-> ApiFileName, content |-> to_csv(data)]}
    /\ ApiDown
    /\ qos_data = Unset
    /\ qos_curves = Unset
    /\ inventory_curves = Unset
    /\ consumption_curves = Unset
    /\ product_inventory_grid = Unset
    /\ time_point_grid = Unset
    /\ product_availability_ratio = Unset
    /\ consumption_curves_interp = Unset
    /\ qos = Unset

\* main() run on an output folder that already holds a qos_output.csv
InitMainDeployed ==
    /\ entry = "main"
    /\ pc = "transform_qos_data"
    /\ raised = "none"
    /\ log = <<>>
    /\ given = <<>>
    /\ first_qos = <<>>
    /\ written = <<>>
    /\ propagated = "none"
    /\ files = {[name |-> ApiFileName,
                 content |-> to_csv(<<[LOCATION |-> "B", WEEK_START |-> "w2",
                                       QOS |-> <<1, 2>>]>>)]}
    /\ ApiDown
    /\ qos_data = <<FirstDemandRow>>
    /\ \E s \in {Flat(<<0, 1>>), Flat(<<1, 1>>)} :
        qos_curves = <<CurveRow(1, "inventory", "w1", s),
                       CurveRow(3, "consumption_profile", "w1", Uniform)>>
    /\ inventory_curves = Unset
    /\ consumption_curves = Unset
    /\ product_inventory_grid = Unset
    /\ time_point_grid = Unset
    /\ product_availability_ratio = Unset
    /\ consumption_curves_interp = Unset
    /\ qos = Unset

Init ==
    \/ InitMain
    \/ InitPipeline
    \/ InitCreateProductInventory
    \/ InitCreateFullTimeGrid
    \/ InitCalcProductAvailabilityRatio
    \/ InitInterpolateConsumptionCurves
    \/ InitCalcQualityOfService
    \/ InitQosApi
    \/ InitMainDeployed

Next ==
    \/ CallTransformQosData
    \/ CallCreateProductInventory
    \/ CallCreateFullTimeGrid
    \/ CallCalcProductAvailabilityRatio
    \/ CallInterpolateConsumptionCurves
    \/ CallCalcQualityOfService
    \/ CallWriteData
    \/ ExceptHandler
    \/ ImportQosApi
    \/ GetQosData
    \/ GetQosByLocation
    \/ GetQosByLocationAndDate
    \/ GetQosByDate

Spec == Init /\ [][Next]_vars

----------------------------------------------------------------------------
(* Properties *)

\* the stage called last
LastCall == IF log = <<>> THEN "none" ELSE log[Len(log)]

\* the inventory curves of qos_curves.csv a demand record refers to
InventoryMatches(r) ==
    {k \in 1 .. Len(qos_curves) :
        /\ qos_curves[k].CURVE_TYPE = "inventory"
        /\ qos_curves[k].CURVE_ID = r.INVENTORY_CURVE_ID}

\* the record is one of the returned inventory curve records
InInventoryCurves(r) ==
    \E k \in 1 .. Len(inventory_curves) :
        /\ inventory_curves[k].LOCATION = r.LOCATION
        /\ inventory_curves[k].PRODUCT = r.PRODUCT
        /\ inventory_curves[k].INVENTORY_CURVE_ID = r.INVENTORY_CURVE_ID
        /\ inventory_curves[k].CONSUMPTION_PROFILE_CURVE_ID =
                r.CONSUMPTION_PROFILE_CURVE_ID

\* C1: after transform_qos_data, if some de-duplicated demand record does not
\* match exactly one inventory curve (none counts), the call has raised
\* MergeError and returned nothing; and after a call that returned, every
\* demand record is among the inventory curve records.
C1_UnmatchedDemandHalts ==
    (entry = "main" /\ LastCall = "transform_qos_data") =>
        /\ (\E i \in 1 .. Len(qos_data) :
                Cardinality(InventoryMatches(qos_data[i])) # 1)
            => /\ raised = "MergeError"
               /\ inventory_curves = Unset
               /\ consumption_curves = Unset
        /\ raised = "none" =>
            \A i \in 1 .. Len(qos_data) : InInventoryCurves(qos_data[i])

\* some demand record refers to a curve id that two inventory curves carry
SomeDemandMatchesTwoCurves ==
    \E i \in 1 .. Len(qos_data) :
        Cardinality(InventoryMatches(qos_data[i])) >= 2

\* C2: after transform_qos_data, if a demand record's inventory_curve_id is
\* the curve_id of two inventory curves, the call has raised MergeError and no
\* inventory or consumption curve record has been produced.
C2_DuplicateCurveIdHalts ==
    (entry = "main" /\ LastCall = "transform_qos_data"
        /\ SomeDemandMatchesTwoCurves)
    => /\ raised = "MergeError"
       /\ pc = "raised"
       /\ inventory_curves = Unset
       /\ consumption_curves = Unset

\* a run in which the only fault of the input is that one demand record
\* matches two inventory curves, after the call
C2_Witness ==
    /\ entry = "main" /\ LastCall = "transform_qos_data"
    /\ SomeDemandMatchesTwoCurves
    /\ Len(qos_data) = 1
    /\ raised = "MergeError"

\* the argument is a frame with the columns the stage requires
WellShaped(t, required_columns) ==
    IsDataFrame(t) /\ HasColumns(t, required_columns)

\* a record whose first minute is not 0 or whose last minute is not LastMinute
OutsideBoundary(curves) ==
    \E i \in 1 .. Len(curves) :
        SeqMin(curves[i].X) # 0 \/ SeqMax(curves[i].X) # LastMinute

\* C3: create_product_inventory called with an inventory record, and
\* interpolate_consumption_curves called with a consumption record, whose
\* smallest minute is not 0 or whose largest minute is not the last minute of
\* the week raises ValueError and returns no table.
C3_BoundaryViolationRaises ==
    /\ (LastCall = "create_product_inventory"
            /\ WellShaped(inventory_curves, InventoryCurveColumns)
            /\ OutsideBoundary(inventory_curves))
        => /\ raised = "ValueError"
           /\ pc = "raised"
           /\ product_inventory_grid = Unset
    /\ (LastCall = "interpolate_consumption_curves"
            /\ OutsideBoundary(consumption_curves))
        => /\ raised = "ValueError"
           /\ pc = "raised"
           /\ consumption_curves_interp = Unset

\* the inventory has passed the validation and the consumption curve, which
\* starts at minute 0 and ends before the last minute, has been refused
C3_Witness ==
    /\ LastCall = "interpolate_consumption_curves"
    /\ product_inventory_grid # Unset
    /\ \E i \in 1 .. Len(consumption_curves) :
        /\ SeqMin(consumption_curves[i].X) = 0
        /\ SeqMax(consumption_curves[i].X) # LastMinute
    /\ raised = "ValueError"

\* the stages that have been called so far
Called(stage) == \E i \in 1 .. Len(log) : log[i] = stage

\* C4: in a run of the pipeline every PA_RATIO that is a number lies between
\* 0 and 1, also when a product of a location and week has two inventory
\* curves (rows without a number are the subject of C5).
C4_PaRatioWithinUnitInterval ==
    (entry = "main" /\ Called("calc_product_availability_ratio")) =>
        \A i \in 1 .. Len(product_availability_ratio) :
            LET v == product_availability_ratio[i].PA_RATIO
            IN  ~IsNaN(v) => FLe(<<0, 1>>, v) /\ FLe(v, <<1, 1>>)

\* C5: when there are inventory curves, all inventory and consumption curves
\* start at minute 0 and end at the last minute, and
\* calc_product_availability_ratio has returned, there is one PA_RATIO row per
\* row of the time point grid and none of them is null.
C5_PaRatioNonNull ==
    (/\ entry = "main"
     /\ LastCall = "calc_product_availability_ratio"
     /\ raised = "none"
     /\ inventory_curves # <<>>
     /\ ~OutsideBoundary(inventory_curves)
     /\ ~OutsideBoundary(consumption_curves))
    => /\ Len(product_availability_ratio) = Len(time_point_grid)
       /\ \A i \in 1 .. Len(product_availability_ratio) :
            ~IsNaN(product_availability_ratio[i].PA_RATIO)

\* PA_RATIO of the minute of a consumption row; no number when the minute has
\* no availability row
PaRatioAt(c) ==
    LET m == SelectSeq(product_availability_ratio,
                       LAMBDA r : GridKey(r) = GridKey(c))
    IN  IF m = <<>> THEN NaN ELSE m[1].PA_RATIO

\* the sum of a column in float arithmetic
RECURSIVE FSum(_)
FSum(v) == IF v = <<>> THEN <<0, 1>> ELSE FAdd(Head(v), FSum(Tail(v)))

\* PA_RATIO(minute) x CONSUMPTION_Y(minute) for the minutes of a location and
\* week
QosTerms(l, w) ==
    LET g == SelectSeq(consumption_curves_interp,
                       LAMBDA r : LocationWeek(r) = <<l, w>>)
    IN  [i \in 1 .. Len(g) |-> FMul(PaRatioAt(g[i]), g[i].CONSUMPTION_Y)]

\* C6: after calc_quality_of_service has returned in a run of the pipeline
\* that has inventory curves, the result has exactly one row for each
\* (LOCATION, WEEK_START) of the interpolated consumption, and its QOS is the
\* sum over the minutes of that pair of PA_RATIO x CONSUMPTION_Y.
C6_QosIsSumOfProducts ==
    (/\ entry = "main"
     /\ LastCall = "calc_quality_of_service"
     /\ raised = "none"
     /\ inventory_curves # <<>>) =>
        LET pairs == {LocationWeek(consumption_curves_interp[i]) :
                        i \in 1 .. Len(consumption_curves_interp)}
        IN  /\ Len(qos) = Cardinality(pairs)
            /\ {LocationWeek(qos[i]) : i \in 1 .. Len(qos)} = pairs
            /\ \A i \in 1 .. Len(qos) :
                qos[i].QOS = FSum(QosTerms(qos[i].LOCATION, qos[i].WEEK_START))

\* the interpolated consumption is non-negative and sums to at most 1.02 for
\* each location and week
ConsumptionProfileBounded ==
    /\ \A i \in 1 .. Len(consumption_curves_interp) :
        FLe(<<0, 1>>, consumption_curves_interp[i].CONSUMPTION_Y)
    /\ \A i \in 1 .. Len(consumption_curves_interp) :
        LET g == SelectSeq(consumption_curves_interp,
                    LAMBDA r : LocationWeek(r) =
                               LocationWeek(consumption_curves_interp[i]))
        IN  FLe(FSum([k \in 1 .. Len(g) |-> g[k].CONSUMPTION_Y]), <<51, 50>>)

\* C7: after a run of the whole pipeline on inputs whose interpolated
\* consumption is non-negative and sums to at most 1.02 for each location and
\* week, every QOS is a number between 0 and 1.02.
C7_QosWithinBounds ==
    (/\ entry = "main"
     /\ LastCall = "calc_quality_of_service"
     /\ raised = "none"
     /\ ConsumptionProfileBounded)
    => \A i \in 1 .. Len(qos) :
        FLe(<<0, 1>>, qos[i].QOS) /\ FLe(qos[i].QOS, <<51, 50>>)

\* the (location, curve, week, minute) keys of a per-minute table
GridKeys(t) == {GridKey(t[i]) : i \in 1 .. Len(t)}

\* C8: calc_quality_of_service called with an interpolated consumption and an
\* availability table that are not over the same keys raises MergeError and
\* returns no QOS.
C8_KeyMismatchRaises ==
    (/\ LastCall = "calc_quality_of_service"
     /\ WellShaped(consumption_curves_interp, ConsumptionInterpColumns)
     /\ WellShaped(product_availability_ratio, AvailabilityColumns)
     /\ GridKeys(consumption_curves_interp) # GridKeys(product_availability_ratio))
    => /\ raised = "MergeError"
       /\ qos = Unset

\* the distinct (location, curve, week) of the consumption records
ConsumptionTriples ==
    {<<consumption_curves[i].LOCATION,
       consumption_curves[i].CONSUMPTION_PROFILE_CURVE_ID,
       consumption_curves[i].WEEK_START>> : i \in 1 .. Len(consumption_curves)}

\* C9: after create_full_time_grid the time point grid has one row per minute
\* of the week for each distinct (location, curve, week) of the consumption
\* records, also when a triple is in more than one record.
C9_GridRowCount ==
    (LastCall = "create_full_time_grid" /\ raised = "none") =>
        Len(time_point_grid) = (LastMinute + 1) * Cardinality(ConsumptionTriples)

\* Y of the latest sample of an inventory curve record at or before minute m
LatestY(rec, m) ==
    LET at == {j \in 1 .. Len(rec.X) : rec.X[j] <= m}
        j == CHOOSE a \in at : \A b \in at : rec.X[b] <= rec.X[a]
    IN  rec.Y[j]

\* the products of a location and week
ProductsOf(l, w) ==
    {inventory_curves[k].PRODUCT : k \in
        {j \in 1 .. Len(inventory_curves) :
            /\ inventory_curves[j].LOCATION = l
            /\ inventory_curves[j].WEEK_START = w}}

\* the products of a location and week in stock at minute m
ProductsInStockAt(l, w, m) ==
    {p \in ProductsOf(l, w) :
        \E k \in 1 .. Len(inventory_curves) :
            /\ inventory_curves[k].LOCATION = l
            /\ inventory_curves[k].WEEK_START = w
            /\ inventory_curves[k].PRODUCT = p
            /\ FGe(LatestY(inventory_curves[k], m), <<1, 1>>)}

\* C10: in a run of the pipeline, PA_RATIO of a minute of a location and week
\* that has products is the number of its products whose latest inventory
\* sample at or before the minute has Y >= 1, divided by the number of its
\* products.
C10_PaRatioMatchesReference ==
    (/\ entry = "main"
     /\ LastCall = "calc_product_availability_ratio"
     /\ raised = "none")
    => \A i \in 1 .. Len(product_availability_ratio) :
        LET r == product_availability_ratio[i]
            n == Cardinality(ProductsOf(r.LOCATION, r.WEEK_START))
        IN  n > 0 =>
                r.PA_RATIO =
                    Frac(Cardinality(
                            ProductsInStockAt(r.LOCATION, r.WEEK_START, r.X)), n)

\* the value at minute m of the line through the samples (a, ya) and (b, yb):
\* ya + (m - a) * (yb - ya) / (b - a)
OnLine(a, ya, b, yb, m) ==
    FAdd(ya, FMul(Frac(m - a, b - a), FAdd(yb, <<0 - ya[1], ya[2]>>)))

\* the consumption of a record at minute m: its sample at m, or the point of
\* the line between its nearest samples before and after m
SampledOrBetween(rec, m) ==
    LET n == Len(rec.X)
    IN  IF \E j \in 1 .. n : rec.X[j] = m
        THEN rec.Y[CHOOSE j \in 1 .. n : rec.X[j] = m]
        ELSE LET a == CHOOSE j \in 1 .. n :
                        rec.X[j] < m /\ \A k \in 1 .. n :
                            rec.X[k] < m => rec.X[k] <= rec.X[j]
                 b == CHOOSE j \in 1 .. n :
                        rec.X[j] > m /\ \A k \in 1 .. n :
                            rec.X[k] > m => rec.X[j] <= rec.X[k]
             IN  OnLine(rec.X[a], rec.Y[a], rec.X[b], rec.Y[b], m)

\* C11: after interpolate_consumption_curves has returned, CONSUMPTION_Y of
\* every row is the sample of the row's own curve at that minute, or the
\* point at that minute of the line between the nearest samples of that curve
\* before and after it.
C11_InterpolationWithinCurve ==
    (LastCall = "interpolate_consumption_curves" /\ raised = "none") =>
        \A i \in 1 .. Len(consumption_curves_interp) :
            \A k \in 1 .. Len(consumption_curves) :
                LET r == consumption_curves_interp[i]
                    c == consumption_curves[k]
                IN  (/\ c.LOCATION = r.LOCATION
                     /\ c.CONSUMPTION_PROFILE_CURVE_ID =
                            r.CONSUMPTION_PROFILE_CURVE_ID
                     /\ c.WEEK_START = r.WEEK_START)
                    => r.CONSUMPTION_Y = SampledOrBetween(c, r.X)

\* C12: after interpolate_consumption_curves has returned, the result has as
\* many rows as the time point grid it was given and CONSUMPTION_Y is not
\* null in any of them.
C12_ConsumptionYNonNull ==
    (LastCall = "interpolate_consumption_curves" /\ raised = "none") =>
        /\ Len(consumption_curves_interp) = Len(time_point_grid)
        /\ \A i \in 1 .. Len(consumption_curves_interp) :
            ~IsNaN(consumption_curves_interp[i].CONSUMPTION_Y)

\* the tables a stage was given, as they are after the call
ArgumentsNow ==
    CASE LastCall = "transform_qos_data" -> <<qos_data, qos_curves>>
      [] LastCall = "create_product_inventory" -> <<inventory_curves>>
      [] LastCall = "create_full_time_grid" -> <<consumption_curves>>
      [] LastCall = "calc_product_availability_ratio" ->
            <<product_inventory_grid, time_point_grid>>
      [] LastCall = "interpolate_consumption_curves" ->
            <<consumption_curves, time_point_grid>>
      [] LastCall = "calc_quality_of_service" ->
            <<consumption_curves_interp, product_availability_ratio>>
      [] OTHER -> given

\* C13: after a call of any of the six stages, every table passed to it has
\* the columns and rows it had when it was passed.
C13_ArgumentsUnchanged == ArgumentsNow = given

\* the same for the stages after transform_qos_data alone
ArgumentsUnchangedAfterTransform ==
    LastCall # "transform_qos_data" => ArgumentsNow = given

\* C14: when the six stages are run a second time on the frames of the first
\* run, the second run raises nothing and its result is the result of the
\* first run: same rows, same values, same order.
C14_SecondRunSameResult ==
    (entry = "pipeline" /\ Len(log) > 6) =>
        /\ raised = "none"
        /\ Len(log) = 12 => qos = first_qos

\* the statements of main() in the order it runs them
StageOrder ==
    <<"transform_qos_data", "create_product_inventory", "create_full_time_grid",
      "calc_product_availability_ratio", "interpolate_consumption_curves",
      "calc_quality_of_service", "write_data">>

\* main() has called its stages in order, has written only the result of a
\* run in which nothing was raised, and the exception that leaves the program
\* is the one a stage raised
InSequence ==
    /\ Len(log) <= Len(StageOrder)
    /\ \A i \in 1 .. Len(log) : log[i] = StageOrder[i]
    /\ written # <<>> => raised = "none" /\ written = <<qos>>
    /\ propagated # "none" => propagated = raised
    /\ raised # "none" => pc = "raised" /\ written = <<>> /\ qos = Unset

\* once a stage has raised, no stage is called, nothing is written, and the
\* only step left hands the same exception to the caller
HaltedStep ==
    raised # "none" =>
        /\ log' = log
        /\ written' = written
        /\ raised' = raised
        /\ propagated' = raised
        /\ <<qos_data, inventory_curves, consumption_curves,
             product_inventory_grid, time_point_grid,
             product_availability_ratio, consumption_curves_interp, qos>>' =
           <<qos_data, inventory_curves, consumption_curves,
             product_inventory_grid, time_point_grid,
             product_availability_ratio, consumption_curves_interp, qos>>

\* C15: main() calls its stages strictly in sequence; once a stage has raised
\* a TypeError, ValueError or MergeError no later stage is called, no result
\* is written, and the exception that leaves the program is the one raised.
C15_FailFast ==
    /\ [](entry = "main" => InSequence)
    /\ [][entry = "main" => HaltedStep]_vars

\* a run that was stopped by interpolate_consumption_curves, after the
\* exception has left the program
C15_Witness ==
    /\ entry = "main"
    /\ log = SubSeq(StageOrder, 1, 5)
    /\ raised = "ValueError"
    /\ propagated = "ValueError"
    /\ written = <<>>
    /\ product_availability_ratio # Unset

\* the columns the stage called last requires of each of its arguments; no
\* entry for a stage without input checks
RequiredColumns ==
    CASE LastCall = "create_product_inventory" -> <<InventoryCurveColumns>>
      [] LastCall = "create_full_time_grid" -> <<ConsumptionCurveColumns>>
      [] LastCall = "calc_product_availability_ratio" ->
            <<InventoryCurveColumns, TimePointGridColumns>>
      [] LastCall = "calc_quality_of_service" ->
            <<ConsumptionInterpColumns, AvailabilityColumns>>
      [] OTHER -> <<>>

\* some argument of the last call was not a table
SomeArgumentNotATable == \E k \in 1 .. Len(given) : given[k] = NotADataFrame

\* some argument of the last call was a table without one of its required
\* columns
SomeArgumentLacksColumn ==
    \E k \in 1 .. Len(given) :
        /\ given[k] # NotADataFrame
        /\ \E i \in 1 .. Len(given[k]) :
            ~(RequiredColumns[k] \subseteq DOMAIN given[k][i])

\* C16: create_product_inventory, create_full_time_grid,
\* calc_product_availability_ratio and calc_quality_of_service raise TypeError
\* when an argument is not a table, also when another argument lacks a
\* column, and ValueError when all arguments are tables and one lacks a
\* required column; in both cases nothing has been computed: the arguments
\* are as they were passed.
C16_InputShapeErrors ==
    RequiredColumns # <<>> =>
        /\ SomeArgumentNotATable =>
            raised = "TypeError" /\ pc = "raised" /\ ArgumentsNow = given
        /\ (~SomeArgumentNotATable /\ SomeArgumentLacksColumn) =>
            raised = "ValueError" /\ pc = "raised" /\ ArgumentsNow = given

\* calc_product_availability_ratio called with an inventory grid without the
\* column Y and a time point grid that is not a table
C16_Witness ==
    /\ LastCall = "calc_product_availability_ratio"
    /\ given[2] = NotADataFrame
    /\ given[1] # NotADataFrame
    /\ SomeArgumentLacksColumn
    /\ raised = "TypeError"

\* the demand records of the input without their dates
DistinctDemand == {DropDate(given[1][i]) : i \in 1 .. Len(given[1])}

\* two rows of the input differ in their date only
DateDuplicates ==
    \E i, j \in 1 .. Len(given[1]) :
        i < j /\ DropDate(given[1][i]) = DropDate(given[1][j])

\* apart from repeated rows the input gives the joins no reason to fail: the
\* distinct demand records have different inventory curves, the locations
\* have different consumption profiles, and no curve id is used twice
NoOtherMergeFault ==
    /\ \A a, b \in DistinctDemand :
        a # b => a.INVENTORY_CURVE_ID # b.INVENTORY_CURVE_ID
    /\ \A a, b \in DistinctDemand :
        a.LOCATION # b.LOCATION =>
            a.CONSUMPTION_PROFILE_CURVE_ID # b.CONSUMPTION_PROFILE_CURVE_ID
    /\ \A i, j \in 1 .. Len(qos_curves) :
        (i # j /\ qos_curves[i].CURVE_TYPE = qos_curves[j].CURVE_TYPE)
            => qos_curves[i].CURVE_ID # qos_curves[j].CURVE_ID

\* C17: after transform_qos_data on an input with rows that differ in their
\* date only, qos_data holds each demand record once; the repetition alone
\* raises no MergeError; and a record with exactly one inventory curve has
\* exactly one inventory curve record.
C17_DateDuplicatesCollapse ==
    (entry = "main" /\ LastCall = "transform_qos_data" /\ DateDuplicates) =>
        /\ Len(qos_data) = Cardinality(DistinctDemand)
        /\ \A d \in DistinctDemand : \E i \in 1 .. Len(qos_data) : qos_data[i] = d
        /\ NoOtherMergeFault => raised = "none"
        /\ raised = "none" =>
            \A d \in DistinctDemand :
                Cardinality(InventoryMatches(d)) = 1 =>
                    Cardinality({k \in 1 .. Len(inventory_curves) :
                        /\ inventory_curves[k].LOCATION = d.LOCATION
                        /\ inventory_curves[k].PRODUCT = d.PRODUCT
                        /\ inventory_curves[k].INVENTORY_CURVE_ID =
                                d.INVENTORY_CURVE_ID
                        /\ inventory_curves[k].CONSUMPTION_PROFILE_CURVE_ID =
                                d.CONSUMPTION_PROFILE_CURVE_ID}) = 1

\* an input of two rows that differ in their date only, joined to one
\* inventory curve record
C17_Witness ==
    /\ entry = "main" /\ LastCall = "transform_qos_data"
    /\ DateDuplicates
    /\ Len(given[1]) = 2
    /\ raised = "none"
    /\ Len(qos_data) = 1
    /\ Len(inventory_curves) = 1

\* the (location, week) partitions of the records the stages work on
Partitions ==
    {LocationWeek(inventory_curves[i]) : i \in 1 .. Len(inventory_curves)}
    \cup {LocationWeek(consumption_curves[i]) : i \in 1 .. Len(consumption_curves)}

\* the rows of a table that belong to one partition, in the table's order
PartitionOf(t, part) == SelectSeq(t, LAMBDA r : LocationWeek(r) = part)

\* stages 2 to 6 run on the records of one partition only
PartitionAlone(part) ==
    LET ic == PartitionOf(inventory_curves, part)
        cc == PartitionOf(consumption_curves, part)
        pig == create_product_inventory(ic)
        tpg == create_full_time_grid(cc)
        par == calc_product_availability_ratio(pig.out, tpg.out)
        cci == interpolate_consumption_curves(cc, tpg.out)
        q == calc_quality_of_service(cci.out, par.out)
    IN  [raised |-> {pig.raised, tpg.raised, par.raised, cci.raised, q.raised},
         product_inventory_grid |-> par.product_inventory_grid,
         product_availability_ratio |-> par.out,
         consumption_curves_interp |-> cci.out,
         qos |-> q.out]

\* C18: when main() ran its six stages without an error, the forward-filled
\* Y, the PA_RATIO, the CONSUMPTION_Y and the QOS of every (location, week)
\* partition are the ones the stages compute from the records of that
\* partition alone, so two inputs that agree on the partition agree on them
C18_PartitionIndependence ==
    (entry = "main" /\ LastCall = "calc_quality_of_service" /\ raised = "none")
        => \A part \in Partitions :
            LET alone == PartitionAlone(part)
            IN  /\ alone.raised = {"none"}
                /\ PartitionOf(product_inventory_grid, part)
                        = alone.product_inventory_grid
                /\ PartitionOf(product_availability_ratio, part)
                        = alone.product_availability_ratio
                /\ PartitionOf(consumption_curves_interp, part)
                        = alone.consumption_curves_interp
                /\ PartitionOf(qos, part) = alone.qos

\* main() succeeded on two partitions that hold different products of one
\* location, with different inventory and different consumption
C18_Witness ==
    /\ entry = "main" /\ LastCall = "calc_quality_of_service" /\ raised = "none"
    /\ Cardinality(Partitions) = 2
    /\ \E a \in 1 .. Len(product_inventory_grid) :
       \E b \in 1 .. Len(product_inventory_grid) :
            /\ product_inventory_grid[a].LOCATION = product_inventory_grid[b].LOCATION
            /\ product_inventory_grid[a].WEEK_START # product_inventory_grid[b].WEEK_START
            /\ product_inventory_grid[a].PRODUCT # product_inventory_grid[b].PRODUCT
            /\ product_inventory_grid[a].X = product_inventory_grid[b].X
            /\ product_inventory_grid[a].Y # product_inventory_grid[b].Y
    /\ \E a \in 1 .. Len(qos) : \E b \in 1 .. Len(qos) :
            /\ LocationWeek(qos[a]) # LocationWeek(qos[b])
            /\ qos[a].QOS # qos[b].QOS

\* C19: when calc_product_availability_ratio returns, its result has as many
\* rows as the time_point_grid it was given, and exactly one of them for the
\* (location, consumption curve, week, minute) of every row of that grid
C19_OneRowPerTimePoint ==
    (LastCall = "calc_product_availability_ratio" /\ raised = "none")
        => /\ Len(product_availability_ratio) = Len(given[2])
           /\ \A g \in 1 .. Len(given[2]) :
                Cardinality({i \in 1 .. Len(product_availability_ratio) :
                    GridKey(product_availability_ratio[i]) = GridKey(given[2][g])}) = 1

\* calc_product_availability_ratio returned for a product_inventory_grid that
\* holds rows, but none at some minute of the time_point_grid
C19_Witness ==
    /\ LastCall = "calc_product_availability_ratio" /\ raised = "none"
    /\ given[1] # <<>>
    /\ \E g \in 1 .. Len(given[2]) : \A i \in 1 .. Len(given[1]) :
            LocationWeekMinute(given[1][i]) # LocationWeekMinute(given[2][g])

\* C20: when create_full_time_grid returns, the grid holds for each record
\* of consumption_curves, in the order of the records, one row per minute of
\* the week with X running from 0 to the last minute, whatever minutes the
\* record itself is sampled at
C20_GridMinutesComplete ==
    (LastCall = "create_full_time_grid" /\ raised = "none")
        => /\ Len(time_point_grid) = Len(given[1]) * (LastMinute + 1)
           /\ \A i \in 1 .. Len(given[1]) : \A x \in 0 .. LastMinute :
                time_point_grid[(i - 1) * (LastMinute + 1) + x + 1]
                    = [LOCATION |-> given[1][i].LOCATION,
                       CONSUMPTION_PROFILE_CURVE_ID |->
                            given[1][i].CONSUMPTION_PROFILE_CURVE_ID,
                       WEEK_START |-> given[1][i].WEEK_START,
                       X |-> x]

\* create_full_time_grid returned for two records, one sampled at the first
\* and the last minute and one sampled at minute 1 only
C20_Witness ==
    /\ LastCall = "create_full_time_grid" /\ raised = "none"
    /\ Len(given[1]) = 2
    /\ \E i \in 1 .. 2 : given[1][i].X = <<1>>
    /\ \E i \in 1 .. 2 : given[1][i].X = <<0, LastMinute>>

\* the minutes at which any record of a table of inventory records has a
\* sample, for one location and week
SampledMinutes(recs, l, w) ==
    UNION {Range(recs[i].X) : i \in
            {j \in 1 .. Len(recs) : recs[j].LOCATION = l /\ recs[j].WEEK_START = w}}

\* the rows of product_inventory_grid of one inventory record at one minute
GridRowsOf(rec, m) ==
    {g \in 1 .. Len(product_inventory_grid) :
        /\ CurveIdentity(product_inventory_grid[g]) = CurveIdentity(rec)
        /\ product_inventory_grid[g].X = m}

\* C21: when create_product_inventory returns, every inventory record has
\* exactly one row for each minute at which any record of its location and
\* week has a sample, with Y the record's own value at its latest sampled
\* minute at or before that minute and with the record's own
\* CONSUMPTION_PROFILE_CURVE_ID, neither of them empty; the grid has no
\* other rows
C21_InventoryDensified ==
    (LastCall = "create_product_inventory" /\ raised = "none")
        => /\ \A i \in 1 .. Len(given[1]) :
              \A m \in SampledMinutes(given[1], given[1][i].LOCATION,
                                      given[1][i].WEEK_START) :
                /\ Cardinality(GridRowsOf(given[1][i], m)) = 1
                /\ \A g \in GridRowsOf(given[1][i], m) :
                    /\ product_inventory_grid[g].Y = LatestY(given[1][i], m)
                    /\ ~IsNaN(product_inventory_grid[g].Y)
                    /\ product_inventory_grid[g].CONSUMPTION_PROFILE_CURVE_ID
                            = given[1][i].CONSUMPTION_PROFILE_CURVE_ID
                    /\ product_inventory_grid[g].CONSUMPTION_PROFILE_CURVE_ID
                            # NullId
           /\ \A g \in 1 .. Len(product_inventory_grid) :
                \E i \in 1 .. Len(given[1]) :
                    /\ CurveIdentity(product_inventory_grid[g])
                            = CurveIdentity(given[1][i])
                    /\ product_inventory_grid[g].X
                            \in SampledMinutes(given[1], given[1][i].LOCATION,
                                               given[1][i].WEEK_START)

\* create_product_inventory returned for two records of one location and
\* week with different consumption curves, one of them without a sample at
\* a minute the other is sampled at, where the two stocks differ
C21_Witness ==
    /\ LastCall = "create_product_inventory" /\ raised = "none"
    /\ \E i \in 1 .. Len(given[1]) : \E j \in 1 .. Len(given[1]) :
        /\ LocationWeek(given[1][i]) = LocationWeek(given[1][j])
        /\ given[1][i].CONSUMPTION_PROFILE_CURVE_ID
                # given[1][j].CONSUMPTION_PROFILE_CURVE_ID
        /\ \E m \in Range(given[1][i].X) \ Range(given[1][j].X) :
                LatestY(given[1][i], m) # LatestY(given[1][j], m)

\* the distinct (location, consumption curve) pairs of a table of demand rows
DemandPairs(qd) ==
    {<<qd[i].LOCATION, qd[i].CONSUMPTION_PROFILE_CURVE_ID>> : i \in 1 .. Len(qd)}

\* two locations refer to one consumption curve
SharedAcrossLocations(qd) ==
    \E a \in DemandPairs(qd) : \E b \in DemandPairs(qd) : a[1] # b[1] /\ a[2] = b[2]

\* two consumption curves of qos_curves carry one CURVE_ID
ConsumptionIdRepeated(qc) ==
    \E i \in 1 .. Len(qc) : \E j \in 1 .. Len(qc) :
        /\ i # j
        /\ qc[i].CURVE_TYPE = "consumption_profile"
        /\ qc[j].CURVE_TYPE = "consumption_profile"
        /\ qc[i].CURVE_ID = qc[j].CURVE_ID

\* the consumption curve records of one (location, consumption curve) pair
ConsumptionRecordsOf(pair) ==
    {k \in 1 .. Len(consumption_curves) :
        /\ consumption_curves[k].LOCATION = pair[1]
        /\ consumption_curves[k].CONSUMPTION_PROFILE_CURVE_ID = pair[2]}

\* C22: transform_qos_data called on demand rows read from qos_data.csv
\* (a) returns exactly one consumption curve record for every distinct
\* (location, consumption curve) pair of the demand rows, however many
\* products share the pair, and (b) raises MergeError when two locations
\* refer to one consumption curve or two consumption curves carry one
\* CURVE_ID
C22_ConsumptionJoinOneToOne ==
    (LastCall = "transform_qos_data" /\ raised # "KeyError")
        => /\ raised = "none"
                => \A pair \in DemandPairs(given[1]) :
                        Cardinality(ConsumptionRecordsOf(pair)) = 1
           /\ (SharedAcrossLocations(given[1]) \/ ConsumptionIdRepeated(given[2]))
                => raised = "MergeError"

\* two rows of a table have the same (location, week, minute)
MinuteRepeated(t) ==
    \E i \in 1 .. Len(t) : \E j \in 1 .. Len(t) :
        i # j /\ LocationWeekMinute(t[i]) = LocationWeekMinute(t[j])

\* two consumption curve records have the same location and week
TwoProfilesInOneWeek ==
    \E i \in 1 .. Len(consumption_curves) : \E j \in 1 .. Len(consumption_curves) :
        i # j /\ LocationWeek(consumption_curves[i]) = LocationWeek(consumption_curves[j])

\* the ratio rows calc_product_availability_ratio joins onto the time point
\* grid it was given
RatioRows ==
    ParData(ProductsInStock(WithProductInStock(given[1])), DistinctProducts(given[1]))

\* C23: in a call of calc_product_availability_ratio on two tables with the
\* required columns, the product totals have one row per (location, week) so
\* the many-to-one validation passes; the call raises MergeError exactly when
\* two rows of the time point grid have the same (location, week, minute),
\* which in main() is when two consumption curve records have the same
\* location and week; and no grid row matches more than one ratio row
C23_AvailabilityJoinValidation ==
    (/\ LastCall = "calc_product_availability_ratio"
     /\ raised \notin {"TypeError", "ValueError"})
        => LET totals == DistinctProducts(given[1])
               ratios == RatioRows
               ratioKeys == [k \in 1 .. Len(ratios) |-> LocationWeekMinute(ratios[k])]
           IN  /\ \A a \in 1 .. Len(totals) : \A b \in 1 .. Len(totals) :
                    LocationWeek(totals[a]) = LocationWeek(totals[b]) => a = b
               /\ raised = "MergeError" <=> MinuteRepeated(given[2])
               /\ entry = "main"
                    => (MinuteRepeated(given[2]) <=> TwoProfilesInOneWeek)
               /\ \A g \in 1 .. Len(given[2]) :
                    Cardinality({k \in 1 .. Len(ratioKeys) :
                        ratioKeys[k] = LocationWeekMinute(given[2][g])}) <= 1

\* main() reached calc_product_availability_ratio with two consumption curves
\* of one location and week, and with inventory of two products there
C23_Witness ==
    /\ entry = "main"
    /\ LastCall = "calc_product_availability_ratio"
    /\ raised = "MergeError"
    /\ TwoProfilesInOneWeek
    /\ \E a \in 1 .. Len(given[1]) : \E b \in 1 .. Len(given[1]) :
        /\ LocationWeekMinute(given[1][a]) = LocationWeekMinute(given[1][b])
        /\ given[1][a].PRODUCT # given[1][b].PRODUCT

\* the rows the query service has loaded that a request asks for: "" stands
\* for a filter the route does not have
RowsAskedFor ==
    SelectSeq(api_qos_data,
        LAMBDA i :
            /\ response.location # "" => i.LOCATION = response.location
            /\ response.week_start # "" => i.WEEK_START = response.week_start)

\* C24: every response of the query service has status 200 and holds exactly
\* the loaded rows the request asks for (all of them, those of the location,
\* those of the week, or those of both; none when there is no such row), and
\* no request changes the loaded rows
C24_ReadOnlyQueries ==
    /\ [](response.route # "none"
            => /\ response.status = 200
               /\ response.json = RowsAskedFor
               /\ response.route = "/qos" => response.json = api_qos_data)
    /\ [][api = "up" => api_qos_data' = api_qos_data]_vars

\* the service answered a request by location and week with some rows while
\* it holds another row of that location in another week
C24_Witness ==
    /\ api = "up"
    /\ response.route = "/qos/location/<location>/<week_start>"
    /\ response.json # <<>>
    /\ \E k \in 1 .. Len(api_qos_data) :
        /\ api_qos_data[k].LOCATION = response.location
        /\ api_qos_data[k].WEEK_START # response.week_start

\* the service answered a request for a location it holds no row of
C24_EmptyAnswer ==
    /\ api = "up"
    /\ api_qos_data # <<>>
    /\ response.route = "/qos/location/<location>"
    /\ response.status = 200
    /\ response.json = <<>>

\* the file of the output folder that holds what the last run of main() wrote
WrittenFiles ==
    {f \in files : f.name # ApiFileName /\ f.content = to_csv(written[Len(written)])}

\* C25: a query service started after main() has written its result to the
\* output folder is serving, and the rows it has loaded are the rows of the
\* file that run wrote
C25_ServiceLoadsWrittenResult ==
    (entry = "main" /\ written # <<>> /\ api # "down")
        => /\ api = "up"
           /\ api_qos_data = DictReader(to_csv(written[Len(written)]))

\* what the service does instead: it opens qos_output.csv, a name
\* write_data never gives a file, so it fails to start unless the folder held
\* such a file before the run, and then it serves that file
ServiceLoadsOtherFile ==
    (entry = "main" /\ written # <<>> /\ api # "down")
        => /\ WrittenFiles # {}
           /\ \A f \in files : f.name = ApiFileName =>
                /\ f \notin WrittenFiles
                /\ api = "up"
                /\ api_qos_data = DictReader(f.content)
           /\ (\A f \in files : f.name # ApiFileName) => api = "failed"

====
